---- MODULE Spec2Model ----
(***************************************************************************)
(* Model of PdfAppender (package model of unidoc): a session that appends  *)
(* an incremental revision to an existing Pdf document.  The object graph  *)
(* is a heap of cells addressed by pointer identity, as the Go code keeps  *)
(* *core.PdfIndirectObject, *core.PdfObjectStream, *core.PdfObjectArray    *)
(* and *core.PdfObjectDictionary values.                                   *)
(***************************************************************************)
EXTENDS Integers, Sequences, FiniteSets, TLC

\* ------------------------------------------------------------------ bounds

\* Number of appender calls explored in one session.
MaxOps == 3

\* ------------------------------------------------------------------ values

\* A core.PdfObject held in a field, an array slot or a dictionary entry.
Nil == <<"nil">>
Ptr(i) == <<"p", i>>
Ref(n) == <<"ref", n>>
IntV(n) == <<"int", n>>
Box(llx, lly, urx, ury) == <<"box", llx, lly, urx, ury>>

IsPtr(v) == v[1] = "p"
IsRef(v) == v[1] = "ref"
IsBox(v) == v[1] = "box"

\* Heap cells.  num is the PdfObjectReference.ObjectNumber of the cell (0 for
\* an object made in this session, which is numbered only when written).
MkInd(num, v) == [kind |-> "ind", num |-> num, v |-> v]
MkStream(num, kv, data, codec) ==
    [kind |-> "stream", num |-> num, kv |-> kv, data |-> data, codec |-> codec]
MkDict(kv) == [kind |-> "dict", kv |-> kv]
MkArray(el) == [kind |-> "array", el |-> el]

\* The dynamic type of a value: the kind of the cell it points to.
Kind(h, v) == IF IsPtr(v) THEN h[v[2]].kind ELSE v[1]

\* ------------------------------------------------- core.PdfObjectDictionary

\* A dictionary is its key/value pairs in insertion order.
KvKeys(kv) == [i \in 1..Len(kv) |-> kv[i][1]]
KvHas(kv, k) == \E i \in 1..Len(kv) : kv[i][1] = k
KvGet(kv, k) ==
    IF KvHas(kv, k) THEN kv[CHOOSE i \in 1..Len(kv) : kv[i][1] = k][2] ELSE Nil
KvSet(kv, k, v) ==
    IF KvHas(kv, k)
    THEN [i \in 1..Len(kv) |-> IF kv[i][1] = k THEN <<k, v>> ELSE kv[i]]
    ELSE Append(kv, <<k, v>>)
KvRemove(kv, k) == SelectSeq(kv, LAMBDA e : e[1] # k)

RECURSIVE KvMerge(_, _)
KvMerge(kv, other) ==
    IF other = <<>> THEN kv
    ELSE KvMerge(KvSet(kv, other[1][1], other[1][2]), Tail(other))

\* core.GetDict / core.GetArray / core.GetStream: trace through an indirect
\* object to the container it holds; Nil when the value is not one.
GetDict(h, v) ==
    IF Kind(h, v) = "dict" THEN v
    ELSE IF Kind(h, v) = "ind" /\ Kind(h, h[v[2]].v) = "dict" THEN h[v[2]].v
    ELSE Nil
GetArray(h, v) ==
    IF Kind(h, v) = "array" THEN v
    ELSE IF Kind(h, v) = "ind" /\ Kind(h, h[v[2]].v) = "array" THEN h[v[2]].v
    ELSE Nil
GetStream(h, v) == IF Kind(h, v) = "stream" THEN v ELSE Nil

\* Allocation: a new cell gets the next address.
Alloc(h, cell) == Append(h, cell)
NewPtr(h) == Ptr(Len(h) + 1)

\* A local variable of a method body: In is evaluated with v, the value the
\* variable was assigned.
With(v, In(_)) == In(v)

\* ------------------------------------------------------------- resource names

\* A resource name is its characters, so that getNewName's suffixing and the
\* substring replacement of the content-stream rewriting act on characters.
F1 == <<"F", "1">>
F2 == <<"F", "2">>
F11 == <<"F", "1", "1">>
F10 == <<"F", "1", "0">>
F12 == <<"F", "1", "2">>
G1 == <<"G", "1">>
G2 == <<"G", "2">>
Im1 == <<"I", "1">>
Im2 == <<"I", "2">>

\* The text "/name " of a name operand in a content stream.
Tok(name) == <<"/">> \o name \o <<" ">>

\* ---------------------------------------------------------- source documents

\* Document A as the PdfReader hands it to NewPdfAppender: three pages.
\*   page 0: Contents array of one stream, Resources an indirect object with a
\*           direct Font dictionary and an indirect ExtGState, no XObject,
\*           Parent an unresolved reference, MediaBox inherited;
\*   page 1: no Contents entry, direct Resources, own MediaBox;
\*   page 2: Contents array of one stream, direct Resources whose Font entry
\*           is an indirect object that holds no dictionary.
HeapA == <<
    MkInd(1, Ptr(2)),                                             \* 1 root
    MkDict(<< <<"Pages", Ref(2)>> >>),                            \* 2 catalog
    MkInd(2, Ptr(4)),                                             \* 3 ppages
    MkDict(<< <<"Kids", Ptr(5)>>, <<"Count", IntV(3)>>,
              <<"MediaBox", Box(0, 0, 4, 4)>> >>),                \* 4 pages
    MkArray(<< Ptr(6), Ptr(15), Ptr(19) >>),                      \* 5 kids
    MkInd(3, Ptr(7)),                                             \* 6 page 0
    MkDict(<< <<"Parent", Ref(2)>>, <<"Contents", Ptr(8)>>,
              <<"Resources", Ptr(10)>> >>),                       \* 7
    MkArray(<< Ptr(9) >>),                                        \* 8
    MkStream(4, <<>>, Tok(F1), "raw"),                            \* 9
    MkInd(5, Ptr(11)),                                            \* 10 resources
    MkDict(<< <<"Font", Ptr(12)>>, <<"ExtGState", Ptr(14)>> >>),  \* 11
    MkDict(<< <<F1, Ptr(13)>> >>),                                \* 12 Font
    MkInd(6, IntV(0)),                                            \* 13 font F1
    MkInd(7, Ptr(18)),                                            \* 14 ExtGState
    MkInd(8, Ptr(16)),                                            \* 15 page 1
    MkDict(<< <<"Parent", Ptr(3)>>, <<"Resources", Ptr(17)>>,
              <<"MediaBox", Box(0, 0, 2, 2)>> >>),                \* 16
    MkDict(<< <<"Font", Ptr(12)>> >>),                            \* 17
    MkDict(<< <<G1, IntV(0)>> >>),                                \* 18
    MkInd(9, Ptr(20)),                                            \* 19 page 2
    MkDict(<< <<"Parent", Ptr(3)>>, <<"Contents", Ptr(21)>>,
              <<"Resources", Ptr(23)>> >>),                       \* 20
    MkArray(<< Ptr(22) >>),                                       \* 21
    MkStream(10, <<>>, <<>>, "raw"),                              \* 22
    MkDict(<< <<"Font", Ptr(13)>> >>)                             \* 23
  >>

\* Document B: one page whose Contents is a single stream and whose Kids
\* entry is an unresolved reference; the page tree declares Count 3 and no
\* MediaBox.  Resources are a direct dictionary with XObject and ExtGState.
HeapB == <<
    MkInd(1, Ptr(2)),                                             \* 1 root
    MkDict(<< <<"Pages", Ref(2)>> >>),                            \* 2 catalog
    MkInd(2, Ptr(4)),                                             \* 3 ppages
    MkDict(<< <<"Kids", Ptr(5)>>, <<"Count", IntV(3)>> >>),       \* 4 pages
    MkArray(<< Ref(3) >>),                                        \* 5 kids
    MkInd(3, Ptr(7)),                                             \* 6 page 0
    MkDict(<< <<"Parent", Ptr(3)>>, <<"Contents", Ptr(8)>>,
              <<"Resources", Ptr(9)>>,
              <<"MediaBox", Box(1, 1, 3, 3)>> >>),                \* 7
    MkStream(5, <<>>, Tok(Im1), "raw"),                           \* 8
    MkDict(<< <<"ExtGState", Ptr(10)>>, <<"XObject", Ptr(11)>>,
              <<"Font", Ptr(13)>> >>),                            \* 9
    MkDict(<<>>),                                                 \* 10
    MkDict(<< <<Im1, Ptr(12)>> >>),                               \* 11
    MkStream(4, <<>>, <<>>, "raw"),                               \* 12 image
    MkInd(6, Ptr(14)),                                            \* 13 Font
    MkDict(<< <<F1, IntV(0)>>, <<F11, IntV(0)>> >>)               \* 14
  >>

\* The caller's material, parsed from another document, laid out after the
\* b cells of the source document: the pages of pdf2.PageList and a form.
\*   page X: Contents a single stream, Resources with ExtGState, XObject and
\*           Font, a MediaBox that is wider than it is high;
\*   page Y: Contents an array, Resources with Font only, no MediaBox;
\*   page Z: Contents an array, Resources with an empty XObject, an
\*           ExtGState with two names and a Font with three: the name page
\*           X uses (also an ExtGState name), a longer name that begins
\*           with it and the name a renaming of the first can give; no
\*           MediaBox.
CallerCells(b) == <<
    MkStream(1, <<>>, Tok(F1) \o Tok(Im2), "raw"),                \* b+1
    MkDict(<< <<"ExtGState", Ptr(b + 3)>>, <<"XObject", Ptr(b + 4)>>,
              <<"Font", Ptr(b + 6)>> >>),                         \* b+2
    MkDict(<< <<G2, IntV(0)>> >>),                                \* b+3
    MkDict(<< <<Im2, Ptr(b + 5)>> >>),                            \* b+4
    MkStream(2, <<>>, <<>>, "raw"),                               \* b+5 image
    MkDict(<< <<F1, Ptr(b + 7)>> >>),                             \* b+6
    MkInd(3, IntV(0)),                                            \* b+7 font
    MkArray(<< Ptr(b + 9) >>),                                    \* b+8
    MkStream(4, <<>>, Tok(F2), "raw"),                            \* b+9
    MkDict(<< <<"Font", Ptr(b + 11)>> >>),                        \* b+10
    MkDict(<< <<F2, Ptr(b + 12)>> >>),                            \* b+11
    MkInd(5, IntV(0)),                                            \* b+12 font
    MkInd(6, Ptr(b + 14)),                                        \* b+13 form
    MkDict(<< <<"Fields", IntV(0)>> >>),                          \* b+14
    MkArray(<< Ptr(b + 16) >>),                                   \* b+15
    MkStream(7, <<>>, Tok(F1) \o Tok(F10) \o Tok(F11), "raw"),   \* b+16
    MkDict(<< <<"ExtGState", Ptr(b + 18)>>, <<"XObject", Ptr(b + 19)>>,
              <<"Font", Ptr(b + 20)>> >>),                        \* b+17
    MkDict(<< <<F1, IntV(0)>>, <<F11, IntV(0)>> >>),              \* b+18
    MkDict(<<>>),                                                 \* b+19
    MkDict(<< <<F1, Ptr(b + 21)>>, <<F10, Ptr(b + 21)>>,
              <<F12, IntV(0)>> >>),                               \* b+20
    MkInd(8, IntV(0))                                             \* b+21 font
  >>

\* A PdfPage of the caller: the fields MergePageWith, copyPage and
\* renameResources read.
PageX(b) == [Contents |-> Ptr(b + 1), Resources |-> Ptr(b + 2),
             MediaBox |-> Box(0, 0, 6, 3)]
PageY(b) == [Contents |-> Ptr(b + 8), Resources |-> Ptr(b + 10),
             MediaBox |-> Nil]
PageZ(b) == [Contents |-> Ptr(b + 15), Resources |-> Ptr(b + 17),
             MediaBox |-> Nil]
CallerPages(b) == << PageX(b), PageY(b), PageZ(b) >>
CallerForm(b) == Ptr(b + 13)

\* What the parser and reader expose of a source document: its bytes, the
\* trailer, the object-number table and the parsed graph.
World(bytes, h, objs) ==
    [rs |-> bytes, hasTrailer |-> TRUE,
     trailer |-> << <<"Root", Ref(1)>> >>, objs |-> objs,
     heap |-> h \o CallerCells(Len(h)), nsrc |-> Len(h)]

WorldA == World(<<10, 11, 12>>, HeapA,
                [n \in 1..10 |-> Ptr(CASE n = 1 -> 1 [] n = 2 -> 3 [] n = 3 -> 6
                                       [] n = 4 -> 9 [] n = 5 -> 10 [] n = 6 -> 13
                                       [] n = 7 -> 14 [] n = 8 -> 15 [] n = 9 -> 19
                                       [] n = 10 -> 22)])
WorldB == World(<<20, 21>>, HeapB,
                [n \in 1..6 |-> Ptr(CASE n = 1 -> 1 [] n = 2 -> 3 [] n = 3 -> 6
                                      [] n = 4 -> 12 [] n = 5 -> 8 [] n = 6 -> 13)])
Worlds == {WorldA, WorldB}

\* parser.LookupByNumber / LookupByReference: Nil stands for a failed lookup.
LookupByNumber(objs, n) == IF n \in DOMAIN objs THEN objs[n] ELSE Nil

\* traceObject(parser, obj): a reference is looked up, anything else is
\* returned as it is.
traceObject(parser, v) ==
    IF IsRef(v) /\ parser # Nil THEN LookupByNumber(parser, v[2]) ELSE v

\* The values of a dictionary in key order, and the children a walk descends
\* into from a container.
KvVals(kv) == [i \in 1..Len(kv) |-> kv[i][2]]

\* ------------------------------------------------------ the two graph walks

\* One call of lookupIndirectObjects, on the value on top of the stack of
\* values still to visit: the stack and the key set of srcIndirectObjects
\* after it.
lookupIndirectObjectsStep(h, stack, src) ==
    LET v == Head(stack)
        rest == Tail(stack)
        k == Kind(h, v)
    IN  IF IsPtr(v) /\ v[2] \in src THEN [stack |-> rest, src |-> src]
        ELSE CASE k = "ind" ->
                    [stack |-> <<h[v[2]].v>> \o rest, src |-> src \cup {v[2]}]
               [] k = "array" -> [stack |-> h[v[2]].el \o rest, src |-> src]
               [] k = "dict" -> [stack |-> KvVals(h[v[2]].kv) \o rest, src |-> src]
               [] k = "stream" -> [stack |-> rest, src |-> src \cup {v[2]}]
               [] OTHER -> [stack |-> rest, src |-> src]

\* lookupIndirectObjects(obj), as a depth-first walk over a stack of values
\* still to visit: the result is the key set of srcIndirectObjects.
RECURSIVE lookupIndirectObjects(_, _, _)
lookupIndirectObjects(h, stack, src) ==
    IF stack = <<>> THEN src
    ELSE With(lookupIndirectObjectsStep(h, stack, src), LAMBDA s :
             lookupIndirectObjects(h, s.stack, s.src))

\* addNewObjects without the hasNewObject test: an object met again is
\* appended again.
AlreadyTrackedNoHas(v, src, has) ==
    v = Nil \/ (IsPtr(v) /\ v[2] \in src)

\* addNewObjects without the srcIndirectObjects test: an object of the source
\* document is appended as if it were new.
AlreadyTrackedNoSrc(v, src, has) ==
    v = Nil \/ (IsPtr(v) /\ v[2] \in has)

\* The two early returns of addNewObjects: the object is nil, is already in
\* hasNewObject, or is a key of srcIndirectObjects.
AlreadyTracked(v, src, has) ==
    v = Nil \/ (IsPtr(v) /\ (v[2] \in has \/ v[2] \in src))

\* addNewObjects appending an indirect object without recording it in
\* hasNewObject.
addNewObjectsStepNoMark(h, stack, src, nw) ==
    LET v == Head(stack)
        rest == Tail(stack)
        k == Kind(h, v)
    IN  IF AlreadyTracked(v, src, nw[2]) THEN [stack |-> rest, nw |-> nw]
        ELSE CASE k = "ind" ->
                    [stack |-> <<h[v[2]].v>> \o rest,
                     nw |-> <<Append(nw[1], v[2]), nw[2]>>]
               [] k = "array" -> [stack |-> h[v[2]].el \o rest, nw |-> nw]
               [] k = "dict" -> [stack |-> KvVals(h[v[2]].kv) \o rest, nw |-> nw]
               [] k = "stream" ->
                    [stack |-> KvVals(h[v[2]].kv) \o rest,
                     nw |-> <<Append(nw[1], v[2]), nw[2] \cup {v[2]}>>]
               [] OTHER -> [stack |-> rest, nw |-> nw]

\* One call of addNewObjects, on the value on top of the stack of values
\* still to visit; nw is <<newObjects, hasNewObject>>.  A stream's dictionary
\* is walked through its entries.
addNewObjectsStep(h, stack, src, nw) ==
    LET v == Head(stack)
        rest == Tail(stack)
        k == Kind(h, v)
    IN  IF AlreadyTracked(v, src, nw[2]) THEN [stack |-> rest, nw |-> nw]
        ELSE CASE k = "ind" ->
                    [stack |-> <<h[v[2]].v>> \o rest,
                     nw |-> <<Append(nw[1], v[2]), nw[2] \cup {v[2]}>>]
               [] k = "array" -> [stack |-> h[v[2]].el \o rest, nw |-> nw]
               [] k = "dict" -> [stack |-> KvVals(h[v[2]].kv) \o rest, nw |-> nw]
               [] k = "stream" ->
                    [stack |-> KvVals(h[v[2]].kv) \o rest,
                     nw |-> <<Append(nw[1], v[2]), nw[2] \cup {v[2]}>>]
               [] OTHER -> [stack |-> rest, nw |-> nw]

\* addNewObjects(obj), as a depth-first walk over a stack of values still to
\* visit.
RECURSIVE addNewObjects(_, _, _, _)
addNewObjects(h, stack, src, nw) ==
    IF stack = <<>> THEN nw
    ELSE With(addNewObjectsStep(h, stack, src, nw), LAMBDA s :
             addNewObjects(h, s.stack, src, s.nw))

\* ------------------------------------------------------------ NewPdfAppender

Max(S) == CHOOSE x \in S : \A y \in S : y <= x

\* The resource names of one page, as setResourceNames collects them from
\* the XObject, ExtGState and Font dictionaries of the page's Resources.
SubDictKeys(h, res, sub) ==
    LET d == GetDict(h, KvGet(h[res[2]].kv, sub))
    IN  IF d = Nil THEN {} ELSE {h[d[2]].kv[i][1] : i \in 1..Len(h[d[2]].kv)}
PageResourceNames(h, parser, pageKv) ==
    LET res == GetDict(h, traceObject(parser, KvGet(pageKv, "Resources")))
    IN  IF res = Nil THEN {}
        ELSE SubDictKeys(h, res, "XObject") \cup SubDictKeys(h, res, "ExtGState")
             \cup SubDictKeys(h, res, "Font")

\* The fields NewPdfAppender fills, or err set when it returns an error.
NewPdfAppender(w) ==
    LET h0 == w.heap
        rootRef == KvGet(w.trailer, "Root")
        oc == IF IsRef(rootRef) THEN LookupByNumber(w.objs, rootRef[2]) ELSE Nil
        catalog == IF Kind(h0, oc) = "ind" THEN h0[oc[2]].v ELSE Nil
        pagesRef == IF Kind(h0, catalog) = "dict"
                    THEN KvGet(h0[catalog[2]].kv, "Pages") ELSE Nil
        ppages == IF IsRef(pagesRef) THEN LookupByNumber(w.objs, pagesRef[2]) ELSE Nil
        pages == IF Kind(h0, ppages) = "ind" THEN h0[ppages[2]].v ELSE Nil
        hasPages == Kind(h0, pages) = "dict"
        kids == IF hasPages THEN KvGet(h0[pages[2]].kv, "Kids") ELSE Nil
        nKids == IF Kind(h0, kids) = "array" THEN Len(h0[kids[2]].el) ELSE 0
        kid(i) == traceObject(w.objs, h0[kids[2]].el[i + 1])
        kidOk(i) == Kind(h0, kid(i)) = "ind" /\ Kind(h0, h0[kid(i)[2]].v) = "dict"
        mediaBox == IF hasPages THEN KvGet(h0[pages[2]].kv, "MediaBox") ELSE Nil
        \* a.catalog.Set("Pages", ppages)
        h1 == [h0 EXCEPT ![catalog[2]].kv = KvSet(@, "Pages", ppages)]
        pagesDict == [i \in 0..(nKids - 1) |-> h0[kid(i)[2]].v]
    IN  IF \/ ~w.hasTrailer
           \/ ~IsRef(rootRef)
           \/ Kind(h0, oc) # "ind"
           \/ Kind(h0, catalog) # "dict"
           \/ ~IsRef(pagesRef)
           \/ Kind(h0, ppages) # "ind"
           \/ (hasPages /\ Kind(h0, kids) # "array")
           \/ (hasPages /\ \E i \in 0..(nKids - 1) : ~kidOk(i))
        THEN [err |-> TRUE,
              \* a.root = oc.(*core.PdfIndirectObject) is not guarded
              panic |-> /\ w.hasTrailer /\ IsRef(rootRef)
                        /\ oc # Nil /\ Kind(h0, oc) # "ind"]
        ELSE [err |-> FALSE,
              heap |-> h1,
              root |-> oc,
              catalog |-> catalog,
              ppages |-> ppages,
              pages |-> pages,
              kids |-> kids,
              pagesDict |-> pagesDict,
              defaultMediaBox |-> IF IsBox(mediaBox) THEN mediaBox ELSE Nil,
              greatestObjNum |-> Max(DOMAIN w.objs \cup {0}),
              srcResources |->
                  UNION {PageResourceNames(h1, w.objs, h1[pagesDict[i][2]].kv) :
                         i \in DOMAIN pagesDict},
              srcIndirectObjects |-> lookupIndirectObjects(h1, <<oc>>, {})]

\* ------------------------------------------------------------ renameResources

\* strconv.Itoa for the suffixes getNewName tries.
Digit(d) == CASE d = 0 -> "0" [] d = 1 -> "1" [] d = 2 -> "2" [] d = 3 -> "3"
              [] d = 4 -> "4" [] d = 5 -> "5" [] d = 6 -> "6" [] d = 7 -> "7"
              [] d = 8 -> "8" [] d = 9 -> "9"
RECURSIVE Itoa(_)
Itoa(i) == IF i < 10 THEN <<Digit(i)>> ELSE Itoa(i \div 10) \o <<Digit(i % 10)>>

\* getNewName without the look into srcResources: always the suffix 1.
getNewNameFirst(srcRes, name) == name \o Itoa(1)

\* getNewName(name): name followed by the first i >= 1 for which the result
\* is not in srcResources.
RECURSIVE getNewNameFrom(_, _, _)
getNewNameFrom(srcRes, name, i) ==
    IF (name \o Itoa(i)) \notin srcRes THEN name \o Itoa(i)
    ELSE getNewNameFrom(srcRes, name, i + 1)
getNewName(srcRes, name) == getNewNameFrom(srcRes, name, 1)

\* strings.Replace(s, old, new, -1): every non-overlapping occurrence, from
\* the left.
IsPrefix(p, t) == Len(p) <= Len(t) /\ SubSeq(t, 1, Len(p)) = p
RECURSIVE Replace(_, _, _)
Replace(t, old, new) ==
    IF t = <<>> THEN <<>>
    ELSE IF IsPrefix(old, t)
    THEN new \o Replace(SubSeq(t, Len(old) + 1, Len(t)), old, new)
    ELSE <<Head(t)>> \o Replace(Tail(t), old, new)

\* getPageResourcesByName(nil, page, dest): the map name -> dictionary that
\* holds it, filled in the order ExtGState, XObject, Font and left as it is
\* at the first entry that is not a dictionary.
DictKeySet(h, d) == {h[d[2]].kv[i][1] : i \in 1..Len(h[d[2]].kv)}
getPageResourcesByName(h, parser, pageKv) ==
    LET sub(res, k) == GetDict(h, traceObject(parser, KvGet(h[res[2]].kv, k)))
        keys(d) == IF d = Nil THEN {} ELSE DictKeySet(h, d)
    IN  With(GetDict(h, traceObject(parser, KvGet(pageKv, "Resources"))), LAMBDA res :
        With(IF res = Nil THEN Nil ELSE sub(res, "ExtGState"), LAMBDA eg :
        With(IF eg = Nil THEN Nil ELSE sub(res, "XObject"), LAMBDA xo :
        With(IF xo = Nil THEN Nil ELSE sub(res, "Font"), LAMBDA ft :
            [n \in keys(eg) \cup keys(xo) \cup keys(ft) |->
                IF n \in keys(ft) THEN ft ELSE IF n \in keys(xo) THEN xo ELSE eg]))))

\* Whether getPageResourcesByName(nil, page, dest) returns an error: the
\* page's Resources, or one of its ExtGState, XObject and Font entries, is
\* not a dictionary.
getPageResourcesByNameErr(h, parser, pageKv) ==
    LET res == GetDict(h, traceObject(parser, KvGet(pageKv, "Resources")))
        sub(k) == GetDict(h, traceObject(parser, KvGet(h[res[2]].kv, k)))
    IN  res = Nil \/ sub("ExtGState") = Nil \/ sub("XObject") = Nil
        \/ sub("Font") = Nil

\* All orders in which a Go map with key set K may be ranged over.
Perms(K) ==
    {q \in [1..Cardinality(K) -> K] : \A i, j \in 1..Cardinality(K) :
        i # j => q[i] # q[j]}

\* The second loop of renameResources, over the names in the order ord: an
\* entry with a new name is re-keyed in its dictionary and its object tracked.
RECURSIVE renameEntries(_, _, _, _, _)
renameEntries(h, nw, src, ord, todo) ==
    IF ord = <<>> THEN [heap |-> h, nw |-> nw]
    ELSE IF Head(ord) \notin DOMAIN todo.renameMap
    THEN renameEntries(h, nw, src, Tail(ord), todo)
    ELSE With(Head(ord), LAMBDA name :
         With(todo.pageResources[name], LAMBDA d :
         With(KvGet(h[d[2]].kv, name), LAMBDA obj :
         With([h EXCEPT ![d[2]].kv =
                   KvRemove(KvSet(@, todo.renameMap[name], obj), name)], LAMBDA h1 :
             renameEntries(h1, addNewObjects(h1, <<obj>>, src, nw), src,
                           Tail(ord), todo)))))

\* The replacements of one stream's decoded text, applied in the order ord
\* of the stream rename map.
RECURSIVE replaceNames(_, _, _)
replaceNames(data, ord, renameMap) ==
    IF ord = <<>> THEN data
    ELSE replaceNames(Replace(data, <<"/">> \o Head(ord),
                              <<"/">> \o renameMap[Head(ord)]),
                      Tail(ord), renameMap)

\* The third loop of renameResources, over the elements of Contents: a
\* stream is decoded, rewritten, re-encoded and given its new Length.  The
\* loop stops at the first stream whose codec fails.
RECURSIVE rewriteStreams(_, _, _, _)
rewriteStreams(h, elements, ord, renameMap) ==
    IF elements = <<>> THEN [heap |-> h, err |-> FALSE]
    ELSE With(GetStream(h, Head(elements)), LAMBDA st :
         IF st = Nil THEN rewriteStreams(h, Tail(elements), ord, renameMap)
         ELSE IF h[st[2]].codec # "raw" THEN [heap |-> h, err |-> TRUE]
         ELSE With(replaceNames(h[st[2]].data, ord, renameMap), LAMBDA data :
              rewriteStreams([h EXCEPT ![st[2]].data = data,
                                       ![st[2]].kv = KvSet(@, "Length",
                                                           IntV(Len(data)))],
                             Tail(elements), ord, renameMap)))

\* The names of a page that are also names of the source document: the
\* entries renameResources gives a new name.
CollidingNames(h, srcRes, pageKv) ==
    DOMAIN getPageResourcesByName(h, Nil, pageKv) \cap srcRes

\* renameResources(page) on the session fields S.  hasContents and elements
\* are core.GetArray(page.Get("Contents")); o2 and o3 are the orders in which
\* the second loop ranges over pageResources and the third over the stream
\* rename map, each a priority among names.  The result is the session
\* fields after the call and the error the call returns.
renameResources(S, srcRes, hasContents, elements, pageKv, o2, o3) ==
    IF ~hasContents THEN [S |-> S, err |-> FALSE]
    ELSE
    With(getPageResourcesByName(S.heap, Nil, pageKv), LAMBDA pageResources :
    With(DOMAIN pageResources \cap srcRes, LAMBDA colliding :
    With([n \in DOMAIN S.resourcesRenameMap \cup colliding |->
             IF n \in colliding THEN getNewName(srcRes, n)
             ELSE S.resourcesRenameMap[n]], LAMBDA renameMap :
    With(renameEntries(S.heap, <<S.newObjects, S.hasNewObject>>,
                       S.srcIndirectObjects,
                       SelectSeq(o2, LAMBDA n : n \in DOMAIN pageResources),
                       [pageResources |-> pageResources,
                        renameMap |-> renameMap]), LAMBDA r2 :
    With(rewriteStreams(r2.heap, elements,
                        SelectSeq(o3, LAMBDA n : n \in colliding), renameMap),
         LAMBDA r3 :
        [S |-> [S EXCEPT !.heap = r3.heap,
                         !.newObjects = r2.nw[1],
                         !.hasNewObject = r2.nw[2],
                         !.resourcesRenameMap = renameMap],
         err |-> r3.err])))))

\* -------------------------------------------------------- copyObject, copyPage

\* The cells a deep copy from the values in stack has to make: every cell
\* reached through pointers that objectToObjectCopyMap does not hold yet.
CellChildren(c) ==
    CASE c.kind = "ind" -> <<c.v>>
      [] c.kind = "array" -> c.el
      [] c.kind = "dict" -> KvVals(c.kv)
      [] c.kind = "stream" -> KvVals(c.kv)
RECURSIVE CopyReach(_, _, _, _)
CopyReach(h, memo, stack, seen) ==
    IF stack = <<>> THEN seen
    ELSE LET v == Head(stack)
         IN  IF ~IsPtr(v) \/ v[2] \in seen \/ v[2] \in DOMAIN memo
             THEN CopyReach(h, memo, Tail(stack), seen)
             ELSE CopyReach(h, memo, CellChildren(h[v[2]]) \o Tail(stack),
                            seen \cup {v[2]})

\* copyObject(obj, objectToObjectCopyMap) for the values roots: the heap with
\* the copies appended and the map extended; an object the map already holds
\* is not copied again.
CopyVal(v, m) == IF IsPtr(v) /\ v[2] \in DOMAIN m THEN Ptr(m[v[2]]) ELSE v
CopyCell(c, m) ==
    CASE c.kind = "ind" -> [c EXCEPT !.v = CopyVal(@, m)]
      [] c.kind = "array" -> [c EXCEPT !.el = [i \in 1..Len(@) |-> CopyVal(@[i], m)]]
      [] OTHER -> [c EXCEPT !.kv = [i \in 1..Len(@) |-> <<@[i][1], CopyVal(@[i][2], m)>>]]
copyObject(h, memo, roots) ==
    With(CopyReach(h, memo, roots, {}), LAMBDA R :
    LET rank(id) == Cardinality({x \in R : x <= id})
        ofRank(k) == CHOOSE id \in R : rank(id) = k
    IN  With([id \in DOMAIN memo \cup R |->
                 IF id \in R THEN Len(h) + rank(id) ELSE memo[id]], LAMBDA m :
            [heap |-> h \o [k \in 1..Cardinality(R) |-> CopyCell(h[ofRank(k)], m)],
             memo |-> m]))

\* copyPage wrapping the caller's own Contents and Resources in a new page
\* dictionary, copying nothing beneath it.
copyPageShallow(S, page) ==
    With(Alloc(S.heap,
               MkDict(<< <<"Contents", page.Contents>>,
                         <<"Resources", page.Resources>> >>
                      \o (IF page.MediaBox = Nil THEN <<>>
                          ELSE << <<"MediaBox", page.MediaBox>> >>))),
         LAMBDA h4 :
        [heap |-> Alloc(h4, MkInd(0, Ptr(Len(h4)))),
         memo |-> S.objectToObjectCopyMap,
         pageIndirect |-> Ptr(Len(h4) + 1), pageDict |-> Ptr(Len(h4))])

\* copyPage(page): the page dictionary is rebuilt entry by entry (an array or
\* dictionary entry is first copied one level deep), deep-copied with
\* copyObject and wrapped in a new indirect object.  The result gives the
\* heap, the copy map and the addresses of copyPageIndirect and copyPageDict.
copyPage(S, page) ==
    LET h0 == S.heap
        top(v) == IF Kind(h0, v) \in {"array", "dict"}
                  THEN CellChildren(h0[v[2]]) ELSE <<v>>
        isCell(v) == Kind(h0, v) \in {"array", "dict"}
        dup(v, memo) ==
            CASE Kind(h0, v) = "array" ->
                     MkArray([i \in 1..Len(h0[v[2]].el) |->
                                 CopyVal(h0[v[2]].el[i], memo)])
                [] Kind(h0, v) = "dict" ->
                     MkDict([i \in 1..Len(h0[v[2]].kv) |->
                                 <<h0[v[2]].kv[i][1],
                                   CopyVal(h0[v[2]].kv[i][2], memo)>>])
        \* the copy of one entry: the heap after it and the entry's new value
        entry(h, v, memo) ==
            IF isCell(v) THEN [heap |-> Alloc(h, dup(v, memo)), val |-> NewPtr(h)]
            ELSE [heap |-> h, val |-> CopyVal(v, memo)]
    IN  With(copyObject(h0, S.objectToObjectCopyMap,
                        top(page.Contents) \o top(page.Resources)), LAMBDA c :
        With(entry(c.heap, page.Contents, c.memo), LAMBDA contents :
        With(entry(contents.heap, page.Resources, c.memo), LAMBDA resources :
        With(Alloc(resources.heap,
                   MkDict(<< <<"Contents", contents.val>>,
                             <<"Resources", resources.val>> >>
                          \o (IF page.MediaBox = Nil THEN <<>>
                              ELSE << <<"MediaBox", page.MediaBox>> >>))),
             LAMBDA h4 :
            [heap |-> Alloc(h4, MkInd(0, Ptr(Len(h4)))), memo |-> c.memo,
             pageIndirect |-> Ptr(Len(h4) + 1), pageDict |-> Ptr(Len(h4))]))))

\* ------------------------------------------------------------------- session

VARIABLES
    rs,                     \* the bytes of the source document
    parser,                 \* object number -> parsed object
    heap,                   \* the object graph
    root, catalog, ppages, pages, kids,
    defaultMediaBox,
    greatestObjNum,
    srcResources,
    srcIndirectObjects,     \* the key set of the map
    srcPageCount,           \* the pages of the document the reader loaded
    newObjects, hasNewObject,
    pagesDict, newPagesDict,
    resourcesRenameMap,
    objectToObjectCopyMap,
    pageList,               \* the caller's pages (pdf2.PageList)
    acroForm,               \* the caller's form
    dest,                   \* the file at outputPath: "absent" or its bytes
    last,                   \* the last call, its arguments and its result
    touched,                \* a Merge, Replace, Add or ReplaceForm call was made
    failed,                 \* some call of the session returned an error
    nOps,
    fonts                   \* the composite fonts a caller holds, by type

vars == <<rs, parser, heap, root, catalog, ppages, pages, kids, defaultMediaBox,
          greatestObjNum, srcResources, srcIndirectObjects, newObjects,
          hasNewObject, pagesDict, newPagesDict, resourcesRenameMap,
          objectToObjectCopyMap, pageList, acroForm, dest, last, nOps,
          srcPageCount, touched, failed, fonts>>

\* What a session never assigns after NewPdfAppender.
fixed == <<rs, parser, root, catalog, ppages, pages, kids, defaultMediaBox,
           greatestObjNum, srcResources, srcPageCount, pageList, acroForm,
           fonts>>

\* The fields the operations change, as one value.
Self == [heap |-> heap, srcIndirectObjects |-> srcIndirectObjects,
         newObjects |-> newObjects, hasNewObject |-> hasNewObject,
         pagesDict |-> pagesDict, newPagesDict |-> newPagesDict,
         resourcesRenameMap |-> resourcesRenameMap,
         objectToObjectCopyMap |-> objectToObjectCopyMap]

Store(S) ==
    /\ heap' = S.heap
    /\ srcIndirectObjects' = S.srcIndirectObjects
    /\ newObjects' = S.newObjects
    /\ hasNewObject' = S.hasNewObject
    /\ pagesDict' = S.pagesDict
    /\ newPagesDict' = S.newPagesDict
    /\ resourcesRenameMap' = S.resourcesRenameMap
    /\ objectToObjectCopyMap' = S.objectToObjectCopyMap

\* The state in which NewPdfAppender(reader) has returned the session a for
\* the document w.
Opened(w, a) ==
    /\ rs = w.rs
    /\ parser = w.objs
    /\ heap = a.heap
    /\ root = a.root
    /\ catalog = a.catalog
    /\ ppages = a.ppages
    /\ pages = a.pages
    /\ kids = a.kids
    /\ defaultMediaBox = a.defaultMediaBox
    /\ greatestObjNum = a.greatestObjNum
    /\ srcResources = a.srcResources
    /\ srcIndirectObjects = a.srcIndirectObjects
    /\ srcPageCount = Cardinality(DOMAIN a.pagesDict)
    /\ touched = FALSE
    /\ failed = FALSE
    /\ newObjects = <<>>
    /\ hasNewObject = {}
    /\ pagesDict = a.pagesDict
    /\ newPagesDict = <<>>
    /\ resourcesRenameMap = <<>>
    /\ objectToObjectCopyMap = <<>>
    /\ pageList = CallerPages(w.nsrc)
    /\ acroForm = CallerForm(w.nsrc)
    /\ dest = [exists |-> FALSE, bytes |-> <<>>]
    /\ last = [op |-> "NewPdfAppender", err |-> "none"]
    /\ nOps = 0
    /\ fonts = <<>>

\* The state NewPdfAppender(reader) returns for a well-formed document.
Init ==
    \E w \in Worlds :
        \E a \in {NewPdfAppender(w)} : ~a.err /\ Opened(w, a)

\* Document B damaged in one place each: what NewPdfAppender (102-179) tests
\* on its way from the trailer to the pages.
BadWorlds ==
    { [WorldB EXCEPT !.hasTrailer = FALSE],
      [WorldB EXCEPT !.trailer = << <<"Root", Ptr(1)>> >>],
      [WorldB EXCEPT !.objs[1] = Ptr(2)],
      [WorldB EXCEPT !.heap[1].v = IntV(0)],
      [WorldB EXCEPT !.heap[2].kv = << <<"Pages", Ptr(3)>> >>],
      [WorldB EXCEPT !.objs[2] = Ptr(4)],
      [WorldB EXCEPT !.heap[3].v = IntV(0)],
      [WorldB EXCEPT !.heap[4].kv = << <<"Kids", IntV(0)>>, <<"Count", IntV(3)>> >>],
      [WorldB EXCEPT !.heap[5].el = << Ref(4) >>] }

\* The state after NewPdfAppender(reader) has returned an error, or has
\* panicked, for the document w: there is no session.
NotOpened(w, a) ==
    /\ rs = w.rs
    /\ parser = w.objs
    /\ heap = w.heap
    /\ root = Nil /\ catalog = Nil /\ ppages = Nil /\ pages = Nil /\ kids = Nil
    /\ defaultMediaBox = Nil
    /\ greatestObjNum = 0
    /\ srcResources = {}
    /\ srcIndirectObjects = {}
    /\ srcPageCount = 0
    /\ touched = FALSE
    /\ failed = TRUE
    /\ newObjects = <<>>
    /\ hasNewObject = {}
    /\ pagesDict = <<>>
    /\ newPagesDict = <<>>
    /\ resourcesRenameMap = <<>>
    /\ objectToObjectCopyMap = <<>>
    /\ pageList = CallerPages(w.nsrc)
    /\ acroForm = CallerForm(w.nsrc)
    /\ dest = [exists |-> FALSE, bytes |-> <<>>]
    /\ last = [op |-> "NewPdfAppender",
               err |-> IF a.panic THEN "panic" ELSE "error"]
    /\ nOps = 0
    /\ fonts = <<>>

\* NewPdfAppender on any document, well-formed or damaged.
InitOpen ==
    \E w \in Worlds \cup BadWorlds :
        \E a \in {NewPdfAppender(w)} :
            IF a.err THEN NotOpened(w, a) ELSE Opened(w, a)

\* ------------------------------------------------------------- MergePageWith

\* page.Resources.Font, .ExtGState, .XObject of a caller's page.
ResField(h, page, k) == KvGet(h[page.Resources[2]].kv, k)

\* The elements of a page's content: those of the array, or the one object.
\* Content elements read from arrays only: a single stream counts as none.
ContentElementsArrayOnly(h, c) == IF Kind(h, c) = "array" THEN h[c[2]].el ELSE <<>>

ContentElements(h, c) == IF Kind(h, c) = "array" THEN h[c[2]].el ELSE <<c>>

\* MergePageWith opening a page without looking whether the source page has
\* Contents.
MergeOpenNoCheck(S, pageNum) ==
    LET h == S.heap
        srcKv == h[S.pagesDict[pageNum][2]].kv
        parentRef == KvGet(srcKv, "Parent")
        parent == traceObject(parser, parentRef)
        kv1 == IF IsRef(parentRef) THEN KvSet(srcKv, "Parent", parent) ELSE srcKv
        srcContentsObj == KvGet(srcKv, "Contents")
        h1 == Alloc(h, MkArray(IF srcContentsObj = Nil THEN <<>>
                               ELSE ContentElements(h, srcContentsObj)))
        h2 == Alloc(h1, MkDict(KvSet(kv1, "Contents", Ptr(Len(h1)))))
        h3 == Alloc(h2, MkInd(0, Ptr(Len(h2))))
    IN  IF pageNum \in DOMAIN S.newPagesDict
        THEN [heap |-> h, err |-> "none", newPageInd |-> S.newPagesDict[pageNum]]
        ELSE IF IsRef(parentRef) /\ parent = Nil
        THEN [heap |-> h, err |-> "LookupFailed", newPageInd |-> Nil]
        ELSE [heap |-> h3, err |-> "none", newPageInd |-> Ptr(Len(h3))]

\* MergePageWith making a new working page on every call, whether or not
\* newPagesDict holds one for the index.
MergeOpenAlwaysNew(S, pageNum) ==
    LET h == S.heap
        srcKv == h[S.pagesDict[pageNum][2]].kv
        parentRef == KvGet(srcKv, "Parent")
        parent == traceObject(parser, parentRef)
        kv1 == IF IsRef(parentRef) THEN KvSet(srcKv, "Parent", parent) ELSE srcKv
        srcContentsObj == KvGet(srcKv, "Contents")
        h1 == Alloc(h, MkArray(ContentElements(h, srcContentsObj)))
        h2 == Alloc(h1, MkDict(KvSet(kv1, "Contents", Ptr(Len(h1)))))
        h3 == Alloc(h2, MkInd(0, Ptr(Len(h2))))
    IN  IF IsRef(parentRef) /\ parent = Nil
        THEN [heap |-> h, err |-> "LookupFailed", newPageInd |-> Nil]
        ELSE IF srcContentsObj = Nil
        THEN [heap |-> h, err |-> "ContentsNotFound", newPageInd |-> Nil]
        ELSE [heap |-> h3, err |-> "none", newPageInd |-> Ptr(Len(h3))]

\* The working page of pageNum: the one newPagesDict holds, or a new clone of
\* the source page dictionary with Parent resolved and Contents seeded.
\* T is [heap, nw, err, ...]; a stage passes a failed T through.
MergeOpen(S, pageNum) ==
    LET h == S.heap
        srcKv == h[S.pagesDict[pageNum][2]].kv
        parentRef == KvGet(srcKv, "Parent")
        parent == traceObject(parser, parentRef)
        kv1 == IF IsRef(parentRef) THEN KvSet(srcKv, "Parent", parent) ELSE srcKv
        srcContentsObj == KvGet(srcKv, "Contents")
        h1 == Alloc(h, MkArray(ContentElements(h, srcContentsObj)))
        h2 == Alloc(h1, MkDict(KvSet(kv1, "Contents", Ptr(Len(h1)))))
        h3 == Alloc(h2, MkInd(0, Ptr(Len(h2))))
    IN  IF pageNum \in DOMAIN S.newPagesDict
        THEN [heap |-> h, err |-> "none", newPageInd |-> S.newPagesDict[pageNum]]
        ELSE IF IsRef(parentRef) /\ parent = Nil
        THEN [heap |-> h, err |-> "LookupFailed", newPageInd |-> Nil]
        ELSE IF srcContentsObj = Nil
        THEN [heap |-> h, err |-> "ContentsNotFound", newPageInd |-> Nil]
        ELSE [heap |-> h3, err |-> "none", newPageInd |-> Ptr(Len(h3))]

\* The Font branch: the target's Font must be a dictionary.
MergeFont(T, np, page) ==
    LET h == T.heap
        resDict == GetDict(h, T.res)
        pf == ResField(h, page, "Font")
        fontRaw == KvGet(h[resDict[2]].kv, "Font")
        fontIndObj == traceObject(parser, fontRaw)
        fontDict == GetDict(h, fontIndObj)
        dict == GetDict(h, pf)
        h1 == [h EXCEPT ![fontDict[2]].kv = KvMerge(@, h[dict[2]].kv)]
        h2 == [h1 EXCEPT ![resDict[2]].kv = KvSet(@, "Font", fontIndObj)]
        h3 == [h2 EXCEPT ![np].kv = KvSet(@, "Resources", T.res)]
    IN  IF T.err # "none" \/ pf = Nil THEN T
        ELSE IF IsRef(fontRaw) /\ fontIndObj = Nil
        THEN [T EXCEPT !.err = "LookupFailed"]
        ELSE IF fontIndObj = Nil THEN [T EXCEPT !.err = "panic"]
        ELSE IF fontDict = Nil THEN [T EXCEPT !.err = "FontNotDict"]
        ELSE IF dict = Nil THEN [T EXCEPT !.err = "PageFontNotDict"]
        ELSE [T EXCEPT !.heap = h3]

\* The ExtGState branch: a target ExtGState that is not a dictionary (or is
\* absent) is passed over without an error.
MergeExtGState(T, np, page) ==
    LET h == T.heap
        resDict == GetDict(h, T.res)
        pg == ResField(h, page, "ExtGState")
        egRaw == KvGet(h[resDict[2]].kv, "ExtGState")
        extGStateIndObj == traceObject(parser, egRaw)
        extGStateDict == GetDict(h, extGStateIndObj)
        dict == GetDict(h, pg)
        h1 == [h EXCEPT ![extGStateDict[2]].kv = KvMerge(@, h[dict[2]].kv)]
        h2 == [h1 EXCEPT ![resDict[2]].kv = KvSet(@, "ExtGState", extGStateIndObj)]
        h3 == [h2 EXCEPT ![np].kv = KvSet(@, "Resources", T.res)]
    IN  IF T.err # "none" \/ pg = Nil THEN T
        ELSE IF IsRef(egRaw) /\ extGStateIndObj = Nil
        THEN [T EXCEPT !.err = "LookupFailed"]
        ELSE IF extGStateDict = Nil THEN T
        ELSE IF dict = Nil THEN [T EXCEPT !.err = "PageExtGStateNotDict"]
        ELSE [T EXCEPT !.heap = h3]

\* The XObject branch: an absent target XObject is made as a new indirect
\* object holding an empty dictionary, and tracked at once.
MergeXObject(T, np, page) ==
    LET h == T.heap
        resDict == GetDict(h, T.res)
        px == ResField(h, page, "XObject")
        xoRaw == KvGet(h[resDict[2]].kv, "XObject")
        traced == traceObject(parser, xoRaw)
        make == traced = Nil
        h0 == IF make THEN Alloc(Alloc(h, MkDict(<<>>)), MkInd(0, Ptr(Len(h) + 1)))
              ELSE h
        xObjectIndObj == IF make THEN Ptr(Len(h0)) ELSE traced
        nw0 == IF make THEN addNewObjects(h0, <<xObjectIndObj>>, T.src, T.nw)
               ELSE T.nw
        xObjectDict == GetDict(h0, xObjectIndObj)
        dict == GetDict(h0, px)
        h1 == [h0 EXCEPT ![xObjectDict[2]].kv = KvMerge(@, h0[dict[2]].kv)]
        h2 == [h1 EXCEPT ![resDict[2]].kv = KvSet(@, "XObject", xObjectIndObj)]
        h3 == [h2 EXCEPT ![np].kv = KvSet(@, "Resources", T.res)]
    IN  IF T.err # "none" \/ px = Nil THEN T
        ELSE IF IsRef(xoRaw) /\ traced = Nil
        THEN [T EXCEPT !.err = "LookupFailed"]
        ELSE IF xObjectDict = Nil
        THEN [T EXCEPT !.heap = h0, !.nw = nw0, !.err = "XObjectNotDict"]
        ELSE IF dict = Nil
        THEN [T EXCEPT !.heap = h0, !.nw = nw0, !.err = "PageXObjectNotDict"]
        ELSE [T EXCEPT !.heap = h3, !.nw = nw0]

\* The page box after the union with the incoming page's box: each edge
\* moves only outward; changed tells whether any edge moved.
\* The incoming box taken as the result, whatever the page's box was.
UnionBoxIncoming(b, pb) == pb

UnionBox(b, pb) ==
    Box(IF b[2] > pb[2] THEN pb[2] ELSE b[2],
        IF b[3] > pb[3] THEN pb[3] ELSE b[3],
        IF b[4] < pb[4] THEN pb[4] ELSE b[4],
        IF b[5] < pb[5] THEN pb[5] ELSE b[5])
MergeMediaBox(T, np, page) ==
    LET h == T.heap
        own == KvGet(h[np].kv, "MediaBox")
        mediaBox == IF IsBox(own) THEN own
                    ELSE IF defaultMediaBox # Nil THEN defaultMediaBox
                    ELSE Box(0, 0, 0, 0)
        u == UnionBox(mediaBox, page.MediaBox)
    IN  IF T.err # "none" \/ page.MediaBox = Nil \/ u = mediaBox THEN T
        ELSE [T EXCEPT !.heap = [h EXCEPT ![np].kv = KvSet(@, "MediaBox", u)]]

\* PdfObjectArray.Set(i, obj): an index outside the array changes nothing.
ArraySet(h, arr, i, v) ==
    IF i >= 0 /\ i < Len(h[arr[2]].el)
    THEN [h EXCEPT ![arr[2]].el[i + 1] = v] ELSE h

\* A page-not-found return that reports no error.
PageNotFoundSilent(S) == [S |-> S, err |-> "none"]

\* The return of MergePageWith and ReplacePage for a pageNum that pagesDict
\* does not hold: an error, and the session as it was.
PageNotFound(S) == [S |-> S, err |-> "PageNotFound"]

\* page.Duplicate(): a copy of the PdfPage structure.  Its fields point at
\* the objects the caller's page points at.
Duplicate(page) ==
    [Contents |-> page.Contents, Resources |-> page.Resources,
     MediaBox |-> page.MediaBox]

\* MergePageWith(pageNum, page): the session fields after the call and the
\* error it returns.  A return in the middle keeps what was done before it.
MergePageWith(S, pageNum, page, o2, o3) ==
    IF pageNum \notin DOMAIN S.pagesDict THEN PageNotFound(S)
    ELSE
    With(MergeOpen(S, pageNum), LAMBDA open :
    IF open.err # "none" THEN [S |-> S, err |-> open.err]
    ELSE
    LET newPageInd == open.newPageInd
        h0 == open.heap
        np == h0[newPageInd[2]].v[2]
        srcContents == GetArray(h0, KvGet(h0[np].kv, "Contents"))
        elements == ContentElements(h0, page.Contents)
    IN
    IF srcContents = Nil THEN [S |-> S, err |-> "ContentsNotArray"]
    ELSE
    With([h0 EXCEPT ![srcContents[2]].el = @ \o elements], LAMBDA h1 :
    With(addNewObjects(h1, elements, S.srcIndirectObjects,
                       <<S.newObjects, S.hasNewObject>>), LAMBDA nw1 :
    With(renameResources([S EXCEPT !.heap = h1, !.newObjects = nw1[1],
                                   !.hasNewObject = nw1[2]],
                         srcResources, TRUE, elements,
                         << <<"Resources", page.Resources>> >>, o2, o3).S,
         LAMBDA S2 :
    With(traceObject(parser, KvGet(S2.heap[np].kv, "Resources")), LAMBDA traced :
    LET h2 == S2.heap
        resRaw == KvGet(h2[np].kv, "Resources")
        fresh == IsPtr(traced) /\ traced[2] \in S.srcIndirectObjects
        h3 == IF fresh THEN Alloc(h2, MkInd(0, h2[traced[2]].v)) ELSE h2
        resourcesIndObj == IF fresh THEN NewPtr(h2) ELSE traced
        T0 == [heap |-> h3, nw |-> <<S2.newObjects, S2.hasNewObject>>,
               res |-> resourcesIndObj, src |-> S.srcIndirectObjects,
               err |-> IF IsRef(resRaw) /\ traced = Nil THEN "LookupFailed"
                       ELSE IF traced = Nil THEN "panic"
                       ELSE IF GetDict(h3, resourcesIndObj) = Nil
                       THEN "ResourcesNotDict" ELSE "none"]
    IN
    With(MergeMediaBox(
             MergeXObject(MergeExtGState(MergeFont(T0, np, page), np, page),
                          np, page), np, page), LAMBDA T4 :
    IF T4.err # "none"
    THEN [S |-> [S2 EXCEPT !.heap = T4.heap, !.newObjects = T4.nw[1],
                           !.hasNewObject = T4.nw[2]],
          err |-> T4.err]
    ELSE
    With(addNewObjects(T4.heap, <<newPageInd>>, S.srcIndirectObjects, T4.nw),
         LAMBDA nw5 :
        [S |-> [S2 EXCEPT !.heap = ArraySet(T4.heap, kids, pageNum, newPageInd),
                          !.newObjects = nw5[1],
                          !.hasNewObject = nw5[2],
                          !.newPagesDict =
                              [i \in DOMAIN @ \cup {pageNum} |->
                                  IF i = pageNum THEN newPageInd ELSE @[i]]],
         err |-> "none"])))))))

\* The values the explored calls take their arguments from.
PageNums == -1..2

\* The orders a call can range over its maps in: the priorities among the
\* names of the pages pgs that are names of the source document (a name
\* outside that set is never renamed, so its place changes nothing).
Orders(pgs) ==
    Perms(srcResources \cap
          UNION {PageResourceNames(heap, Nil,
                                   << <<"Resources", pageList[pgs[i]].Resources>> >>) :
                 i \in 1..Len(pgs)})

MergePageWithAction ==
    /\ nOps < MaxOps
    /\ \E pageNum \in PageNums, pg \in 1..Len(pageList) :
      \E o2 \in Orders(<<pg>>), o3 \in Orders(<<pg>>) :
        \E r \in {MergePageWith(Self, pageNum, Duplicate(pageList[pg]), o2, o3)} :
            /\ nOps' = nOps + 1
            /\ last' = [op |-> "MergePageWith", pageNum |-> pageNum, page |-> pg,
                        err |-> r.err]
            /\ touched' = TRUE
            /\ failed' = (failed \/ r.err # "none")
            /\ Store(r.S)
            /\ UNCHANGED <<fixed, dest>>

\* --------------------------------------------------- ReplacePage and AddPages

\* What ReplacePage and AddPages share: the page is copied, the copy is given
\* the Parent a.ppages and its resources are renamed (the error of
\* renameResources is dropped).  The result carries the addresses of the copy.
copyAndRename(S, page, o2, o3) ==
    With(copyPage(S, page), LAMBDA c :
    With([c.heap EXCEPT ![c.pageDict[2]].kv = KvSet(@, "Parent", ppages)],
         LAMBDA h1 :
    LET pd == c.pageDict[2]
        contents == GetArray(h1, KvGet(h1[pd].kv, "Contents"))
    IN  [S |-> renameResources(
                   [S EXCEPT !.heap = h1, !.objectToObjectCopyMap = c.memo],
                   srcResources, contents # Nil,
                   IF contents # Nil THEN h1[contents[2]].el ELSE <<>>,
                   h1[pd].kv, o2, o3).S,
         pageIndirect |-> c.pageIndirect, pageDict |-> c.pageDict]))

\* A tracker that also records what it appends as objects of the source.
TrackIntoSource(S, v) ==
    With(addNewObjects(S.heap, <<v>>, S.srcIndirectObjects,
                       <<S.newObjects, S.hasNewObject>>), LAMBDA nw :
        [S EXCEPT !.newObjects = nw[1], !.hasNewObject = nw[2],
                  !.srcIndirectObjects = @ \cup (nw[2] \ S.hasNewObject)])

\* Tracking an object in the pending delta, as a change of the session fields.
Track(S, v) ==
    With(addNewObjects(S.heap, <<v>>, S.srcIndirectObjects,
                       <<S.newObjects, S.hasNewObject>>), LAMBDA nw :
        [S EXCEPT !.newObjects = nw[1], !.hasNewObject = nw[2]])

\* ReplacePage looking the index up after the page was copied and renamed.
ReplacePageLateCheck(S, pageNum, page, o2, o3) ==
    With(copyAndRename(S, page, o2, o3), LAMBDA c :
        IF pageNum \notin DOMAIN S.pagesDict
        THEN [S |-> Track(c.S, c.pageIndirect), err |-> "PageNotFound"]
        ELSE [S |-> [Track([c.S EXCEPT !.pagesDict[pageNum] = c.pageDict],
                           c.pageIndirect)
                        EXCEPT !.heap = ArraySet(@, kids, pageNum, c.pageIndirect)],
              err |-> "none"])

ReplacePage(S, pageNum, page, o2, o3) ==
    IF pageNum \notin DOMAIN S.pagesDict THEN PageNotFound(S)
    ELSE
    With(copyAndRename(S, page, o2, o3), LAMBDA c :
        [S |-> [Track([c.S EXCEPT !.pagesDict[pageNum] = c.pageDict],
                      c.pageIndirect)
                   EXCEPT !.heap = ArraySet(@, kids, pageNum, c.pageIndirect)],
         err |-> "none"])

\* One turn of the loop of AddPages.
AddPage(S, page, o2, o3) ==
    With(copyAndRename(S, page, o2, o3), LAMBDA c :
    With(Cardinality(DOMAIN S.pagesDict), LAMBDA index :
        [Track([c.S EXCEPT
                   !.pagesDict = [i \in DOMAIN @ \cup {index} |->
                                     IF i = index THEN c.pageDict ELSE @[i]],
                   !.newPagesDict = [i \in DOMAIN @ \cup {index} |->
                                        IF i = index THEN c.pageIndirect ELSE @[i]]],
               c.pageIndirect)
            EXCEPT !.heap =
                [@ EXCEPT ![kids[2]].el = Append(@, c.pageIndirect),
                          ![pages[2]].kv = KvSet(@, "Count", IntV(index + 1))]]))

\* AddPages taking its arguments from the last to the first.
RECURSIVE AddPagesReversed(_, _, _, _)
AddPagesReversed(S, pgs, o2, o3) ==
    IF pgs = <<>> THEN S
    ELSE AddPage(AddPagesReversed(S, Tail(pgs), o2, o3), Head(pgs), o2, o3)

RECURSIVE AddPages(_, _, _, _)
AddPages(S, pgs, o2, o3) ==
    IF pgs = <<>> THEN S
    ELSE AddPages(AddPage(S, Head(pgs), o2, o3), Tail(pgs), o2, o3)

\* ReplaceForm(form): the form is deep-copied, set as the catalog's AcroForm
\* and tracked.
ReplaceForm(S, form) ==
    With(copyObject(S.heap, S.objectToObjectCopyMap, <<form>>), LAMBDA c :
    With(CopyVal(form, c.memo), LAMBDA obj :
        Track([S EXCEPT !.heap = [c.heap EXCEPT ![catalog[2]].kv =
                                     KvSet(@, "AcroForm", obj)],
                        !.objectToObjectCopyMap = c.memo], obj)))

\* The pages of the caller the explored ReplacePage calls are given.
ReplaceArgs == {1, 2}

ReplacePageAction ==
    /\ nOps < MaxOps
    /\ \E pageNum \in PageNums, pg \in ReplaceArgs :
      \E o2 \in Orders(<<pg>>), o3 \in Orders(<<pg>>) :
        \E r \in {ReplacePage(Self, pageNum, pageList[pg], o2, o3)} :
            /\ nOps' = nOps + 1
            /\ last' = [op |-> "ReplacePage", pageNum |-> pageNum, page |-> pg,
                        err |-> r.err]
            /\ touched' = TRUE
            /\ failed' = (failed \/ r.err # "none")
            /\ Store(r.S)
            /\ UNCHANGED <<fixed, dest>>

\* The argument lists of the explored AddPages calls: one page, or two.
PageArgs == {<<1>>, <<2>>, <<1, 2>>}

AddPagesAction ==
    /\ nOps < MaxOps
    /\ \E pgs \in PageArgs : \E o2 \in Orders(pgs), o3 \in Orders(pgs) :
        /\ nOps' = nOps + 1
        /\ last' = [op |-> "AddPages", pages |-> pgs, err |-> "none"]
        /\ touched' = TRUE
        /\ failed' = failed
        /\ Store(AddPages(Self, [i \in 1..Len(pgs) |-> pageList[pgs[i]]], o2, o3))
        /\ UNCHANGED <<fixed, dest>>

ReplaceFormAction ==
    /\ nOps < MaxOps
    /\ nOps' = nOps + 1
    /\ last' = [op |-> "ReplaceForm", err |-> "none"]
    /\ touched' = TRUE
    /\ failed' = failed
    /\ Store(ReplaceForm(Self, acroForm))
    /\ UNCHANGED <<fixed, dest>>

\* ---------------------------------------------------------------- WriteToFile

\* The objects newPdfWriterFromAppender and the loop of WriteToFile hand to
\* the writer: the new info object, the root, the page tree node, then the
\* pending delta; addObject keeps the first of equal objects.  0 stands for
\* the info object, which is made for the writer alone.
RECURSIVE Dedup(_, _)
Dedup(q, seen) ==
    IF q = <<>> THEN <<>>
    ELSE IF Head(q) \in seen THEN Dedup(Tail(q), seen)
    ELSE <<Head(q)>> \o Dedup(Tail(q), seen \cup {Head(q)})
WriterObjects(nobjs) == Dedup(<<0, root[2], ppages[2]>> \o nobjs, {})

\* The bytes PdfWriter.Write puts into the buffer in append mode: one unit
\* per object written, then the cross-reference section and the trailer.
XrefByte == 200
TrailerByte == 201
ObjByte(id) == 100 + id
Serialize(objs) == [i \in 1..Len(objs) |-> ObjByte(objs[i])] \o <<XrefByte, TrailerByte>>

\* A writer told to count positions from the start of its buffer.
WriterSetupRelative(bytes) == [writeOffset |-> 0, ObjNumOffset |-> greatestObjNum]

\* What WriteToFile sets on the writer before it adds the pending objects:
\* the number of bytes io.Copy has copied from the source, and the greatest
\* object number of the source.
WriterSetup(bytes) == [writeOffset |-> Len(bytes), ObjNumOffset |-> greatestObjNum]

\* The cross-reference entries PdfWriter.Write makes in append mode for the
\* objects objs, written one after the other: the k-th object gets the number
\* ObjNumOffset + k and the position writeOffset plus what the buffer held
\* before it (one unit per object, counted from 0).
XrefEntries(w, objs) ==
    [k \in 1..Len(objs) |-> [num |-> w.ObjNumOffset + k,
                             offset |-> w.writeOffset + (k - 1)]]

\* WriteToFile returning right after os.Create when nothing is pending: the
\* source is not copied.
WriteToFileNoCopy(file, bytes, nobjs, fail, n) ==
    LET buffer == Serialize(WriterObjects(nobjs))
    IN  IF fail = "create" THEN [file |-> file, err |-> "create"]
        ELSE IF Len(nobjs) = 0
        THEN [file |-> [exists |-> TRUE, bytes |-> <<>>], err |-> "none"]
        ELSE IF fail \in {"seek", "copy", "serialize", "append"}
        THEN [file |-> [exists |-> TRUE, bytes |-> <<>>], err |-> fail]
        ELSE [file |-> [exists |-> TRUE, bytes |-> bytes \o buffer], err |-> "none"]

\* WriteToFile handing the created file to the writer without copying the
\* source first.
WriteToFileNoPrefix(file, bytes, nobjs, fail, n) ==
    LET buffer == Serialize(WriterObjects(nobjs))
    IN  IF fail = "create" THEN [file |-> file, err |-> "create"]
        ELSE IF Len(nobjs) = 0
        THEN [file |-> [exists |-> TRUE, bytes |-> bytes], err |-> "none"]
        ELSE IF fail \in {"seek", "copy", "serialize", "append"}
        THEN [file |-> [exists |-> TRUE, bytes |-> <<>>], err |-> fail]
        ELSE [file |-> [exists |-> TRUE, bytes |-> buffer], err |-> "none"]

\* WriteToFile letting the writer serialize straight into the file, with no
\* buffer in between: what the writer produced before it failed stays.
WriteToFileDirect(file, bytes, nobjs, fail, n) ==
    LET buffer == Serialize(WriterObjects(nobjs))
        copied == [exists |-> TRUE, bytes |-> bytes]
    IN  IF fail = "create" THEN [file |-> file, err |-> "create"]
        ELSE IF fail \in {"seek", "copy"}
        THEN [file |-> [exists |-> TRUE, bytes |-> <<>>], err |-> fail]
        ELSE IF Len(nobjs) = 0 THEN [file |-> copied, err |-> "none"]
        ELSE IF fail \in {"serialize", "append"}
        THEN [file |-> [copied EXCEPT !.bytes = bytes \o SubSeq(buffer, 1, n)],
              err |-> fail]
        ELSE [file |-> [copied EXCEPT !.bytes = bytes \o buffer], err |-> "none"]

\* WriteToFile(outputPath): what the file at outputPath holds after the call
\* and the error returned.  fail names the step that fails, n the number of
\* bytes a failing io.Copy has written before it fails.
WriteToFile(file, bytes, nobjs, fail, n) ==
    LET buffer == Serialize(WriterObjects(nobjs))
        created == [exists |-> TRUE, bytes |-> <<>>]
        copied == [exists |-> TRUE, bytes |-> bytes]
    IN  IF fail = "create" THEN [file |-> file, err |-> "create"]
        ELSE IF fail = "seek" THEN [file |-> created, err |-> "seek"]
        ELSE IF fail = "copy"
        THEN [file |-> [created EXCEPT !.bytes = SubSeq(bytes, 1, n)],
              err |-> "copy"]
        ELSE IF Len(nobjs) = 0 THEN [file |-> copied, err |-> "none"]
        ELSE IF fail = "serialize" THEN [file |-> copied, err |-> "serialize"]
        ELSE IF fail = "append"
        THEN [file |-> [copied EXCEPT !.bytes = bytes \o SubSeq(buffer, 1, n)],
              err |-> "append"]
        ELSE [file |-> [copied EXCEPT !.bytes = bytes \o buffer], err |-> "none"]

\* The failures explored: none, or one step failing; a failing copy stops
\* before its last byte.
Failures == {"none", "create", "seek", "copy", "serialize", "append"}
PartialCounts(fail) ==
    CASE fail = "copy" -> 0..(Len(rs) - 1)
      [] fail = "append" -> {0, 1, Len(Serialize(WriterObjects(newObjects))) - 1}
      [] fail = "serialize" -> {0, 1}
      [] OTHER -> {0}

WriteToFileAction ==
    /\ nOps < MaxOps
    /\ \E fail \in Failures : \E n \in PartialCounts(fail) :
        \E r \in {WriteToFile(dest, rs, newObjects, fail, n)} :
            /\ nOps' = nOps + 1
            /\ dest' = r.file
            /\ last' = [op |-> "WriteToFile", fail |-> fail, err |-> r.err]
            /\ failed' = (failed \/ r.err # "none")
            /\ Store(Self)
            /\ UNCHANGED <<fixed, touched>>

\* RemovePage with the body that is commented out put back, as far as it
\* can be read: the index is looked up, and for a page of the session the
\* child is taken out of Kids.
RemovePageUncommented(pageNum) ==
    /\ nOps < MaxOps
    /\ nOps' = nOps + 1
    /\ last' = [op |-> "RemovePage", pageNum |-> pageNum,
                err |-> IF pageNum \in DOMAIN pagesDict THEN "none"
                        ELSE "PageNotFound"]
    /\ failed' = (failed \/ pageNum \notin DOMAIN pagesDict)
    /\ Store([Self EXCEPT !.heap = ArraySet(@, kids, pageNum, Nil)])
    /\ UNCHANGED <<fixed, dest, touched>>

\* RemovePage(pageNum): the body is commented out; the call only returns an
\* error.
RemovePage(pageNum) ==
    /\ nOps < MaxOps
    /\ nOps' = nOps + 1
    /\ last' = [op |-> "RemovePage", pageNum |-> pageNum, err |-> "unimplemented"]
    /\ failed' = TRUE
    /\ Store(Self)
    /\ UNCHANGED <<fixed, dest, touched>>

Next ==
    \/ MergePageWithAction
    \/ ReplacePageAction
    \/ AddPagesAction
    \/ ReplaceFormAction
    \/ WriteToFileAction
    \/ \E i \in PageNums : RemovePage(i)

Spec == Init /\ [][Next]_vars

\* The caller holds a session whose page tree was read: only then are the
\* operations called.
HasSession == Kind(heap, kids) = "array"
NextOpen == HasSession /\ Next
SpecOpen == InitOpen /\ [][NextOpen]_vars

\* ------------------------------------------------------- composite fonts

\* The composite font types of font_composite.go and the text encoders a
\* font can hold; "nil" is the encoder of a font that was given none.
FontTypes == {"pdfFontType0", "pdfCIDFontType0", "pdfCIDFontType2"}
Encoders == {"nil", "IdentityH", "TrueType", "WinAnsi", "Symbol"}

\* font.Encoder(): the encoder field of the font.
Encoder(font) == font.encoder

\* font.SetEncoder(encoder), as the caller's font stands after the call.  The
\* method has a value receiver: the assignment is made to the receiver, a
\* copy of the font that is dropped when the method returns.
SetEncoder(font, encoder) ==
    LET receiver == [font EXCEPT !.encoder = encoder]
    IN  font

\* A caller holds one font of each composite type, with any encoder, and no
\* appender session.
InitFont ==
    /\ \E f \in [FontTypes -> Encoders] :
          fonts = [t \in FontTypes |-> [type |-> t, encoder |-> f[t]]]
    /\ rs = <<>> /\ parser = <<>> /\ heap = <<>>
    /\ root = Nil /\ catalog = Nil /\ ppages = Nil /\ pages = Nil /\ kids = Nil
    /\ defaultMediaBox = Nil
    /\ greatestObjNum = 0
    /\ srcResources = {}
    /\ srcIndirectObjects = {}
    /\ srcPageCount = 0
    /\ touched = FALSE
    /\ failed = FALSE
    /\ newObjects = <<>>
    /\ hasNewObject = {}
    /\ pagesDict = <<>>
    /\ newPagesDict = <<>>
    /\ resourcesRenameMap = <<>>
    /\ objectToObjectCopyMap = <<>>
    /\ pageList = <<>>
    /\ acroForm = Nil
    /\ dest = [exists |-> FALSE, bytes |-> <<>>]
    /\ last = [op |-> "none", font |-> "none", encoder |-> "nil"]
    /\ nOps = 0

\* font.SetEncoder(encoder) on one of the caller's fonts.
SetEncoderAction ==
    \E t \in FontTypes, e \in Encoders :
        /\ fonts' = [fonts EXCEPT ![t] = SetEncoder(@, e)]
        /\ last' = [op |-> "SetEncoder", font |-> t, encoder |-> e]
        /\ UNCHANGED <<rs, parser, heap, root, catalog, ppages, pages, kids,
                       defaultMediaBox, greatestObjNum, srcResources,
                       srcIndirectObjects, newObjects, hasNewObject, pagesDict,
                       newPagesDict, resourcesRenameMap, objectToObjectCopyMap,
                       pageList, acroForm, dest, nOps, srcPageCount, touched,
                       failed>>

NextFont == SetEncoderAction
SpecFont == InitFont /\ [][NextFont]_vars

\* ------------------------------------------------------------------ properties

\* The last call was a WriteToFile that returned no error.
Committed == last.op = "WriteToFile" /\ last.err = "none"

\* C1: a session on which no MergePageWith, ReplacePage, AddPages or
\* ReplaceForm call was made, committed with a WriteToFile that returns no
\* error, leaves a destination that holds exactly the bytes of the source:
\* same length, same content, nothing appended.
C1_ZeroOpsIdentity ==
    (Committed /\ ~touched) => (dest.exists /\ dest.bytes = rs)
C1_Witness == Committed /\ ~touched /\ dest.exists /\ dest.bytes = rs

\* C2: after any calls followed by a WriteToFile that returns no error, the
\* first Len(rs) bytes of the destination are the bytes of the source, and
\* what the commit adds lies after them.
C2_PrefixKept ==
    Committed =>
        /\ dest.exists
        /\ Len(dest.bytes) >= Len(rs)
        /\ SubSeq(dest.bytes, 1, Len(rs)) = rs
        /\ SubSeq(dest.bytes, Len(rs) + 1, Len(dest.bytes))
               \in {<<>>, Serialize(WriterObjects(newObjects))}
C2_Witness ==
    Committed /\ touched /\ Len(dest.bytes) > Len(rs)
    /\ SubSeq(dest.bytes, 1, Len(rs)) = rs

\* C3: when the writer fails while serializing the new revision, the
\* destination holds exactly the bytes of the source and no byte of the new
\* revision: the revision goes to a buffer and reaches the file only after it
\* was serialized.
C3_SerializeFailureKeepsOriginal ==
    (last.op = "WriteToFile" /\ last.err = "serialize") =>
        (dest.exists /\ dest.bytes = rs)
C3_Witness ==
    last.op = "WriteToFile" /\ last.err = "serialize" /\ Len(newObjects) > 0
    /\ dest.bytes = rs

\* The elements of the Contents array of the working page of index i.
WorkingContents(i) ==
    LET np == heap[newPagesDict[i][2]].v
        c == GetArray(heap, KvGet(heap[np[2]].kv, "Contents"))
    IN  IF c = Nil THEN <<>> ELSE heap[c[2]].el

\* C4: in every reachable state the pending delta newObjects holds no object
\* twice, objects being compared by identity (their address).
C4_NoDuplicates ==
    \A i, j \in 1..Len(newObjects) : i # j => newObjects[i] # newObjects[j]
\* A page merged into twice: its working page was handed to the tracker twice.
C4_Witness ==
    /\ last.op = "MergePageWith" /\ last.err = "none"
    /\ last.pageNum \in DOMAIN newPagesDict
    /\ newPagesDict[last.pageNum][2] \in hasNewObject
    /\ Len(WorkingContents(last.pageNum)) >= 3
    /\ srcPageCount > last.pageNum

\* The addresses the array kids holds.
KidPtrs == {heap[kids[2]].el[i][2] : i \in {j \in 1..Len(heap[kids[2]].el) :
                                               IsPtr(heap[kids[2]].el[j])}}

\* C5: the tracker appends an indirect object or stream exactly when it is
\* neither in the pending delta already nor a key of srcIndirectObjects.  So
\* no member of newObjects is in srcIndirectObjects, newObjects holds only
\* indirect objects and streams, hasNewObject is the set of its members, and
\* every page object the operations handed to the tracker and put into Kids
\* is in the pending delta unless it is an object of the source.
C5_TrackedIffNew ==
    /\ \A i \in 1..Len(newObjects) :
          /\ newObjects[i] \notin srcIndirectObjects
          /\ heap[newObjects[i]].kind \in {"ind", "stream"}
    /\ hasNewObject = {newObjects[i] : i \in 1..Len(newObjects)}
    /\ \A k \in KidPtrs : k \in srcIndirectObjects \/ k \in hasNewObject
\* A tracked working page whose Contents still holds a stream of the source,
\* which the walk met and passed over.
C5_Witness ==
    \E i \in DOMAIN newPagesDict :
        /\ newPagesDict[i][2] \in hasNewObject
        /\ \E e \in 1..Len(WorkingContents(i)) :
              /\ WorkingContents(i)[e][2] \in srcIndirectObjects
        /\ \E e \in 1..Len(WorkingContents(i)) :
              /\ WorkingContents(i)[e][2] \in hasNewObject

\* The cells reached from the values in stack through indirect-object
\* payloads, array elements, dictionary values and stream dictionaries,
\* without going on through an object of the source set src.
RECURSIVE ReachNew(_, _, _, _)
ReachNew(h, src, stack, seen) ==
    IF stack = <<>> THEN seen
    ELSE LET v == Head(stack)
         IN  IF ~IsPtr(v) \/ v[2] \in seen
             THEN ReachNew(h, src, Tail(stack), seen)
             ELSE IF v[2] \in src
             THEN ReachNew(h, src, Tail(stack), seen \cup {v[2]})
             ELSE ReachNew(h, src, CellChildren(h[v[2]]) \o Tail(stack),
                           seen \cup {v[2]})

\* The indirect objects and streams reached from the pending delta.
DeltaReach ==
    {c \in ReachNew(heap, srcIndirectObjects,
                    [i \in 1..Len(newObjects) |-> Ptr(newObjects[i])], {}) :
        heap[c].kind \in {"ind", "stream"}}

\* C6: after calls that all returned no error, at the commit, every indirect
\* object or stream reached from an object of the pending delta is in the
\* pending delta or in the source object set.
C6_ClosureAtCommit ==
    (Committed /\ ~failed) =>
        \A c \in DeltaReach : c \in hasNewObject \/ c \in srcIndirectObjects

\* The step is a call of operation op.
Called(op) == nOps' = nOps + 1 /\ last'.op = op

\* C7: no call changes srcIndirectObjects: the set NewPdfAppender filled is
\* the set every later state holds.
C7_SourceSetFixed == [][srcIndirectObjects' = srcIndirectObjects]_vars
C7_Witness ==
    /\ Committed /\ ~failed /\ Len(newObjects) > 0
    /\ \E i \in DOMAIN newPagesDict : i >= srcPageCount
    /\ \E w \in Worlds :
          w.rs = rs /\ srcIndirectObjects = NewPdfAppender(w).srcIndirectObjects

\* C8 as stated: MergePageWith returns the page-not-found error for every
\* index outside the pages the source document had when the session was
\* opened, after AddPages calls too.
C8_SourcePageCount ==
    (last.op = "MergePageWith"
        /\ (last.pageNum < 0 \/ last.pageNum >= srcPageCount))
    => last.err = "PageNotFound"

\* C8, amended: MergePageWith returns the page-not-found error exactly for an
\* index outside the pages of the session at the call, which are the pages of
\* the source and the pages earlier AddPages calls added; the pages are
\* numbered from 0 without a gap, one per element of Kids.
C8_SessionPageCount ==
    [][/\ Called("MergePageWith") =>
            (last'.err = "PageNotFound" <=> last'.pageNum \notin DOMAIN pagesDict)
       /\ DOMAIN pagesDict = 0..(Len(heap[kids[2]].el) - 1)
       /\ Len(heap[kids[2]].el) >= srcPageCount]_vars
C8_Witness ==
    /\ last.op = "MergePageWith" /\ last.err = "none"
    /\ last.pageNum >= srcPageCount
    /\ last.pageNum \in DOMAIN newPagesDict

\* C9: a ReplacePage call with an index outside the pages of the session
\* returns the page-not-found error and changes no field of the session: the
\* object graph with Kids, pagesDict, newPagesDict, the pending delta and
\* both maps are what they were.
C9_ReplaceOutOfRange ==
    [][(Called("ReplacePage") /\ last'.pageNum \notin DOMAIN pagesDict) =>
          /\ last'.err = "PageNotFound"
          /\ UNCHANGED <<heap, pagesDict, newPagesDict, newObjects, hasNewObject,
                         resourcesRenameMap, objectToObjectCopyMap,
                         srcIndirectObjects>>]_vars
C9_Witness ==
    /\ last.op = "ReplacePage" /\ last.err = "PageNotFound"
    /\ last.pageNum \notin DOMAIN pagesDict
    /\ Len(newObjects) > 0

\* The page dictionary pagesDict holds for index i has no Contents entry, the
\* session holds no working page for i, and a Parent reference of the page
\* resolves.
LacksContents(i) ==
    /\ i \in DOMAIN pagesDict
    /\ i \notin DOMAIN newPagesDict
    /\ KvGet(heap[pagesDict[i][2]].kv, "Contents") = Nil
    /\ LET parentRef == KvGet(heap[pagesDict[i][2]].kv, "Parent")
       IN  IsRef(parentRef) => traceObject(parser, parentRef) # Nil

\* C10: a MergePageWith call on an index of the session whose page dictionary
\* has no Contents entry returns the malformed-page error and changes no
\* field of the session: the object graph with Kids, newPagesDict, pagesDict,
\* the pending delta and both maps are what they were.
C10_MergeWithoutContents ==
    [][(Called("MergePageWith") /\ LacksContents(last'.pageNum)) =>
          /\ last'.err = "ContentsNotFound"
          /\ UNCHANGED <<heap, pagesDict, newPagesDict, newObjects, hasNewObject,
                         resourcesRenameMap, objectToObjectCopyMap,
                         srcIndirectObjects>>]_vars
C10_Witness ==
    /\ last.op = "MergePageWith" /\ last.err = "ContentsNotFound"
    /\ LacksContents(last.pageNum)
    /\ Len(newObjects) > 0

\* C11: a RemovePage call returns an error for every index, in every state
\* of the session, and changes nothing: the object graph, the page maps, the
\* pending delta, both maps, the source set and the destination file are what
\* they were.
C11_RemovePageFails ==
    [][Called("RemovePage") =>
          /\ last'.err # "none"
          /\ UNCHANGED <<heap, pagesDict, newPagesDict, newObjects, hasNewObject,
                         resourcesRenameMap, objectToObjectCopyMap,
                         srcIndirectObjects, dest, fixed>>]_vars
C11_Witness ==
    /\ last.op = "RemovePage" /\ last.err # "none"
    /\ last.pageNum \in DOMAIN pagesDict
    /\ Len(newObjects) > 0

\* The elements of the Contents array of the page dictionary that the
\* indirect object ind holds in heap h.
ContentsOf(h, ind) ==
    LET c == GetArray(h, KvGet(h[h[ind[2]].v[2]].kv, "Contents"))
    IN  IF c = Nil THEN <<>> ELSE h[c[2]].el

\* How often the object at address a stands in the sequence q.
Occurrences(q, a) == Cardinality({k \in 1..Len(q) : q[k] = a})

\* The step is a MergePageWith call that returned no error.
MergedOk == Called("MergePageWith") /\ last'.err = "none"

\* The content elements of the page the step's call was given.
IncomingElements == ContentElements(heap, pageList[last'.page].Contents)

\* C12: a successful MergePageWith on an index that has a working page keeps
\* that working page (the same indirect object), which then stands exactly
\* once in the pending delta and at position i of Kids, and whose Contents is
\* what it was followed by the incoming elements; a successful first
\* MergePageWith on an index makes the working page as a new object whose
\* Contents is the source page's elements followed by the incoming ones.  So
\* two calls on one index give one working page holding the source's, the
\* first page's and the second page's elements, in that order.
C12_MergeTwiceOneWorkingPage ==
    [][MergedOk =>
        LET i == last'.pageNum
            w == newPagesDict'[i]
        IN  /\ i \in DOMAIN newPagesDict'
            /\ Occurrences(newObjects', w[2]) = 1
            /\ heap'[kids[2]].el[i + 1] = w
            /\ \A j \in DOMAIN newPagesDict' \ {i} :
                  j \in DOMAIN newPagesDict /\ newPagesDict'[j] = newPagesDict[j]
            /\ IF i \in DOMAIN newPagesDict
               THEN /\ w = newPagesDict[i]
                    /\ ContentsOf(heap', w) = ContentsOf(heap, w) \o IncomingElements
               ELSE /\ w[2] \notin DOMAIN heap
                    /\ ContentsOf(heap', w) =
                           ContentElements(heap, KvGet(heap[pagesDict[i][2]].kv,
                                                       "Contents"))
                           \o IncomingElements]_vars
\* The second successful merge into a page of the source.
C12_Witness ==
    /\ last.op = "MergePageWith" /\ last.err = "none" /\ ~failed /\ nOps = 2
    /\ last.pageNum < srcPageCount
    /\ Occurrences(newObjects, newPagesDict[last.pageNum][2]) = 1
    /\ Len(ContentsOf(heap, newPagesDict[last.pageNum])) = 3

\* The content streams a Contents value c stands for in heap h: the elements
\* of an array, or the one stream itself.
StreamsOf(h, c) == IF IsPtr(c) /\ h[c[2]].kind = "array" THEN h[c[2]].el ELSE <<c>>

\* The content streams of page i as the session holds it before a merge: those
\* of its working page when there is one, else those of the source page.
PreviousStreams(i) ==
    IF i \in DOMAIN newPagesDict
    THEN StreamsOf(heap, KvGet(heap[heap[newPagesDict[i][2]].v[2]].kv, "Contents"))
    ELSE StreamsOf(heap, KvGet(heap[pagesDict[i][2]].kv, "Contents"))

\* C13: after a successful MergePageWith(i, P) the working page's Contents is
\* an array holding the page's previous content streams in their order
\* followed by P's content streams in their order, none removed or moved,
\* also when the source page's (or P's) Contents is a single stream.
C13_ContentsAppended ==
    [][MergedOk =>
        LET i == last'.pageNum
            c == KvGet(heap'[heap'[newPagesDict'[i][2]].v[2]].kv, "Contents")
        IN  /\ IsPtr(c) /\ heap'[c[2]].kind = "array"
            /\ heap'[c[2]].el =
                   PreviousStreams(i) \o StreamsOf(heap, pageList[last'.page].Contents)
            /\ \A e \in 1..Len(PreviousStreams(i)) :
                   heap'[c[2]].el[e] = PreviousStreams(i)[e]]_vars
\* A page whose source Contents is a single stream merged with a page whose
\* Contents is a single stream.
C13_Witness ==
    /\ last.op = "MergePageWith" /\ last.err = "none"
    /\ last.pageNum \in DOMAIN newPagesDict
    /\ last.pageNum \in DOMAIN pagesDict
    /\ Kind(heap, KvGet(heap[pagesDict[last.pageNum][2]].kv, "Contents")) = "stream"
    /\ Kind(heap, pageList[last.page].Contents) = "stream"
    /\ Len(ContentsOf(heap, newPagesDict[last.pageNum])) >= 2

\* The keys of the subdictionary sub of the Resources value res in heap h;
\* none when res or the subdictionary is missing.
ResourceKeys(h, res, sub) ==
    LET r == GetDict(h, res)
    IN  IF r = Nil THEN {} ELSE SubDictKeys(h, r, sub)

\* The resource subdictionaries MergePageWith merges.
MergedKinds == {"Font", "ExtGState", "XObject"}

\* The keys of the incoming page (after renaming) that the merged page's
\* Resources lack after the step.
DroppedKeys(sub) ==
    ResourceKeys(heap', pageList[last'.page].Resources, sub)
    \ ResourceKeys(heap',
                   KvGet(heap'[heap'[newPagesDict'[last'.pageNum][2]].v[2]].kv,
                         "Resources"), sub)

\* C14: after a successful MergePageWith(i, P) every key of P's Font,
\* ExtGState and XObject dictionaries (as renamed) is a key of the same
\* dictionary of the merged page's Resources, whether or not the page had
\* that dictionary before.
C14_NoResourceKeyDropped ==
    [][MergedOk => \A sub \in MergedKinds : DroppedKeys(sub) = {}]_vars

\* Box a contains box b: no edge of b lies outside a.
Contains(a, b) == a[2] <= b[2] /\ a[3] <= b[3] /\ a[4] >= b[4] /\ a[5] >= b[5]

\* The MediaBox entry of the page dictionary at address d of heap h, and the
\* page's box: that entry, or else the box inherited from the page tree.
MediaBoxEntry(h, d) == KvGet(h[d].kv, "MediaBox")
PageBox(h, d) == IF IsBox(MediaBoxEntry(h, d)) THEN MediaBoxEntry(h, d)
                 ELSE defaultMediaBox

\* The dictionary of page i as the session holds it: the working page's when
\* npd has one, else the source page's.
CurrentPageDict(h, npd, i) ==
    IF i \in DOMAIN npd THEN h[npd[i][2]].v[2] ELSE pagesDict[i][2]

\* C15: after a successful MergePageWith(i, P) with P having a box, the
\* page's box contains P's box and the page's box of before (no edge moved
\* inward); when P has no box, or its box already lay within the page's box,
\* the page's MediaBox entry is what it was.
C15_MediaBoxUnion ==
    [][MergedOk =>
        LET i == last'.pageNum
            pb == pageList[last'.page].MediaBox
            d == CurrentPageDict(heap, newPagesDict, i)
            d2 == CurrentPageDict(heap', newPagesDict', i)
            B == PageBox(heap, d)
            B2 == PageBox(heap', d2)
        IN  /\ IsBox(pb) =>
                  /\ IsBox(B2) /\ Contains(B2, pb)
                  /\ IsBox(B) => Contains(B2, B)
            /\ (pb = Nil \/ (IsBox(B) /\ Contains(B, pb))) =>
                  MediaBoxEntry(heap', d2) = MediaBoxEntry(heap, d)]_vars
\* A page that inherited the page tree's box has been widened by a merge: its
\* own MediaBox entry now is the union, wider than the inherited box and
\* higher than the incoming one.
C15_Witness ==
    /\ last.op = "MergePageWith" /\ last.err = "none"
    /\ last.pageNum \in DOMAIN newPagesDict
    /\ IsBox(defaultMediaBox) /\ IsBox(pageList[last.page].MediaBox)
    /\ LET e == MediaBoxEntry(heap, CurrentPageDict(heap, newPagesDict, last.pageNum))
       IN  /\ IsBox(e) /\ e # defaultMediaBox /\ e # pageList[last.page].MediaBox
           /\ Contains(e, defaultMediaBox) /\ Contains(e, pageList[last.page].MediaBox)

\* The Count the page-tree node declares in heap h.
DeclaredCount(h) == KvGet(h[pages[2]].kv, "Count")[2]

\* C16: an AddPages call with n pages raises the page-tree node's declared
\* Count by exactly n over its value before the call, whatever that value
\* was, on every call.
C16_CountGrowsByN ==
    [][Called("AddPages") =>
          DeclaredCount(heap') = DeclaredCount(heap) + Len(last'.pages)]_vars

\* The child list of the page-tree node in heap h.
KidsOf(h) == h[kids[2]].el

\* In the step's post-state, the child k is a copy of the caller's page: an
\* indirect object made by the step, holding a page dictionary with the
\* page's MediaBox and with the copies of the page's content streams.
IsCopyOfPage(k, page) ==
    /\ IsPtr(k) /\ k[2] \notin DOMAIN heap
    /\ heap'[k[2]].kind = "ind"
    /\ LET d == heap'[k[2]].v[2]
           orig == StreamsOf(heap, page.Contents)
       IN  /\ MediaBoxEntry(heap', d) = page.MediaBox
           /\ StreamsOf(heap', KvGet(heap'[d].kv, "Contents")) =
                  [e \in 1..Len(orig) |-> Ptr(objectToObjectCopyMap'[orig[e][2]])]

\* C17: an AddPages call leaves every existing child of the page-tree node at
\* its index and appends after them one copy per argument, in argument order
\* (so the pages of several calls stand in call order).
C17_AppendedInOrder ==
    [][Called("AddPages") =>
        LET n == Len(KidsOf(heap))
            ps == last'.pages
        IN  /\ Len(KidsOf(heap')) = n + Len(ps)
            /\ \A j \in 1..n : KidsOf(heap')[j] = KidsOf(heap)[j]
            /\ \A j \in 1..Len(ps) :
                  IsCopyOfPage(KidsOf(heap')[n + j], pageList[ps[j]])]_vars
\* Two different pages added in one call, after an earlier call.
C17_Witness ==
    /\ last.op = "AddPages" /\ Len(last.pages) = 2 /\ last.pages[1] # last.pages[2]
    /\ nOps = 2 /\ ~failed
    /\ Len(KidsOf(heap)) = srcPageCount + 3
    /\ \A j \in 1..3 : IsPtr(KidsOf(heap)[srcPageCount + j])

\* The addresses of the objects reachable in heap h from the values roots.
RECURSIVE Reach(_, _, _)
Reach(h, stack, seen) ==
    IF stack = <<>> THEN seen
    ELSE LET v == Head(stack)
         IN  IF ~IsPtr(v) \/ v[2] \in seen THEN Reach(h, Tail(stack), seen)
             ELSE Reach(h, CellChildren(h[v[2]]) \o Tail(stack), seen \cup {v[2]})

\* The objects of the caller's page: its content streams, its resource
\* dictionaries and all they reach.
PageGraph(h, page) == Reach(h, <<page.Contents, page.Resources>>, {})

\* The objects the page dictionary at address d reaches other than through
\* its Parent entry.
RECURSIVE WithoutParent(_)
WithoutParent(kv) ==
    IF kv = <<>> THEN <<>>
    ELSE (IF Head(kv)[1] = "Parent" THEN <<>> ELSE <<Head(kv)[2]>>)
         \o WithoutParent(Tail(kv))
BelowPage(h, d) == Reach(h, WithoutParent(h[d].kv), {})

\* C18: a ReplacePage(i, P) call leaves every object of the caller's page P
\* as it was, and the page it puts at position i of Kids is a new object that
\* reaches, apart from its Parent, no object of P's graph.
C18_ReplaceCopies ==
    [][Called("ReplacePage") =>
        LET P == pageList[last'.page]
            G == PageGraph(heap, P)
        IN  /\ \A a \in G : heap'[a] = heap[a]
            /\ PageGraph(heap', P) = G
            /\ last'.err = "none" =>
                  LET k == KidsOf(heap')[last'.pageNum + 1]
                  IN  /\ IsPtr(k) /\ k[2] \notin DOMAIN heap
                      /\ pagesDict'[last'.pageNum] = heap'[k[2]].v
                      /\ ({k[2]} \cup BelowPage(heap', heap'[k[2]].v[2])) \cap G = {}]_vars

\* How many of a name's suffixed forms a source document is taken to hold
\* already when getNewName is examined on its own.
MaxSuffix == 11

\* r is name followed by the decimal form of the lowest k >= 1 for which the
\* result is not in the set S.
IsLowestFree(S, name, r) ==
    /\ r \notin S
    /\ \E k \in 1..(MaxSuffix + 2) :
          /\ r = name \o Itoa(k)
          /\ \A j \in 1..(k - 1) : (name \o Itoa(j)) \in S

\* C19: the replacement minted for a colliding name n is n followed by the
\* decimal form of the lowest positive k for which that is not a name of
\* srcResources, and so is never a name of srcResources: for every entry
\* the session has put into resourcesRenameMap, and (looked at once, when
\* the session opens) for getNewName applied to a source name when the
\* source also holds its first m suffixed forms.
C19_LowestFreeSuffix ==
    /\ \A n \in DOMAIN resourcesRenameMap :
          n \in srcResources /\ IsLowestFree(srcResources, n, resourcesRenameMap[n])
    /\ nOps = 0 => \A n \in srcResources : \A m \in 0..MaxSuffix :
          \E S \in {srcResources \cup {n \o Itoa(j) : j \in 1..m}} :
              IsLowestFree(S, n, getNewName(S, n))
\* A name was renamed whose first suffixed form the source already holds.
C19_Witness ==
    /\ F1 \in DOMAIN resourcesRenameMap
    /\ F11 \in srcResources
    /\ resourcesRenameMap[F1] = F1 \o <<"2">>
    /\ last.op = "MergePageWith"

\* The names of the incoming page's resources that srcResources holds too:
\* those the step's MergePageWith call renames.
IncomingColliding ==
    CollidingNames(heap, srcResources,
                   << <<"Resources", pageList[last'.page].Resources>> >>)

\* C20: when a MergePageWith call renames a name that the session has
\* renamed before, the replacement differs from the earlier one, carries a
\* greater suffix, and is not a name of srcResources.
C20_SecondRenameDistinct ==
    [][MergedOk =>
        \A n \in IncomingColliding \cap DOMAIN resourcesRenameMap :
            /\ resourcesRenameMap'[n] # resourcesRenameMap[n]
            /\ resourcesRenameMap'[n] \notin srcResources
            /\ \E k1, k2 \in 1..(MaxSuffix + 2) :
                  /\ k1 < k2
                  /\ resourcesRenameMap[n] = n \o Itoa(k1)
                  /\ resourcesRenameMap'[n] = n \o Itoa(k2)]_vars

\* The resource names of the page that stands at position j of Kids in heap
\* h: the keys of the Font, ExtGState and XObject dictionaries of its
\* Resources.
KidResourceNames(h, j) ==
    LET k == traceObject(parser, h[kids[2]].el[j])
        d == GetDict(h, k)
    IN  IF d = Nil THEN {}
        ELSE UNION {ResourceKeys(h, traceObject(parser, KvGet(h[d[2]].kv, "Resources")),
                                 sub) : sub \in MergedKinds}

\* C21: after a successful ReplacePage(i, P) the resource names of the page
\* at position i are disjoint from those of every other page of the
\* document.
C21_ReplacedNamesDisjoint ==
    [][Called("ReplacePage") /\ last'.err = "none" =>
        \A j \in 1..Len(KidsOf(heap')) :
            j # last'.pageNum + 1 =>
                KidResourceNames(heap', j)
                \cap KidResourceNames(heap', last'.pageNum + 1) = {}]_vars

\* How often the text tok occurs in the text t.
RECURSIVE CountOcc(_, _)
CountOcc(t, tok) ==
    IF Len(t) < Len(tok) THEN 0
    ELSE (IF IsPrefix(tok, t) THEN 1 ELSE 0) + CountOcc(Tail(t), tok)

\* All resource names of the caller's page in heap h.
IncomingNames(h, page) ==
    UNION {ResourceKeys(h, page.Resources, sub) : sub \in MergedKinds}

\* C22: when a MergePageWith call renames names of the incoming page, every
\* name operand of the page's content streams that is not one of the renamed
\* names (a longer name beginning with a renamed one, for instance) stands in
\* the rewritten stream as often as it stood before.
C22_OnlyWholeTokensRewritten ==
    [][MergedOk =>
        LET P == pageList[last'.page]
            sts == StreamsOf(heap, P.Contents)
            kept == IncomingNames(heap, P)
                    \ (IncomingColliding
                       \cup {resourcesRenameMap'[n] : n \in IncomingColliding})
        IN  \A e \in 1..Len(sts) : \A m \in kept :
                CountOcc(heap'[sts[e][2]].data, Tok(m))
                    = CountOcc(heap[sts[e][2]].data, Tok(m))]_vars

\* The step is a call of one of the page operations.
PageOpCalled == Called("MergePageWith") \/ Called("ReplacePage") \/ Called("AddPages")

\* The cells of the working page of index i in heap h: its indirect object,
\* its dictionary and what the dictionary's Contents and Resources point at.
WorkingCells(h, npd, i) ==
    LET ind == npd[i][2]
        d == h[ind].v[2]
    IN  {ind, d} \cup {v[2] : v \in {KvGet(h[d].kv, "Contents"),
                                     KvGet(h[d].kv, "Resources")} \cap
                                    {Ptr(a) : a \in DOMAIN h}}

\* C23: a MergePageWith, ReplacePage or AddPages call that returns an error
\* has applied nothing: Kids, the working pages of every index, the pending
\* delta and the rename map are what they were before the call.
C23_FailedCallAppliesNothing ==
    [][PageOpCalled /\ last'.err # "none" =>
        /\ KidsOf(heap') = KidsOf(heap)
        /\ newPagesDict' = newPagesDict
        /\ pagesDict' = pagesDict
        /\ newObjects' = newObjects
        /\ resourcesRenameMap' = resourcesRenameMap
        /\ \A i \in DOMAIN newPagesDict :
              \A a \in WorkingCells(heap, newPagesDict, i) : heap'[a] = heap[a]]_vars

\* Renaming the resources of the caller's page fails in heap h: its
\* resources cannot be read, or one of its content streams cannot be decoded.
\* MergePageWith wraps a single stream in an array before it renames;
\* ReplacePage and AddPages rename only a page whose Contents is an array.
RenameFails(h, page, wraps) ==
    /\ wraps \/ Kind(h, page.Contents) = "array"
    /\ \/ getPageResourcesByNameErr(h, Nil, << <<"Resources", page.Resources>> >>)
       \/ \E e \in 1..Len(StreamsOf(h, page.Contents)) :
             LET st == GetStream(h, StreamsOf(h, page.Contents)[e])
             IN  st # Nil /\ h[st[2]].codec # "raw"

\* C24: a MergePageWith, ReplacePage or AddPages call during which the
\* renaming of the page's resources fails reports an error.
C24_RenameFailureReported ==
    [][/\ Called("MergePageWith") /\ RenameFails(heap, pageList[last'.page], TRUE)
          => last'.err # "none"
       /\ Called("ReplacePage") /\ RenameFails(heap, pageList[last'.page], FALSE)
          => last'.err # "none"
       /\ Called("AddPages")
          /\ (\E j \in 1..Len(last'.pages) :
                 RenameFails(heap, pageList[last'.pages[j]], FALSE))
          => last'.err # "none"]_vars

\* C25: NewPdfAppender never panics, and a session it returns has its
\* page-tree fields set: pages is the page-tree dictionary, kids its Kids
\* array, and every entry of pagesDict a page dictionary.  (A document whose
\* trailer, root, catalog or page tree is damaged thus gets an error and no
\* session.)
C25_InvalidSourceRejected ==
    last.op = "NewPdfAppender" =>
        /\ last.err # "panic"
        /\ last.err = "none" =>
              /\ Kind(heap, pages) = "dict"
              /\ Kind(heap, kids) = "array"
              /\ \A i \in DOMAIN pagesDict : Kind(heap, pagesDict[i]) = "dict"

\* The objects the page at position j of Kids reaches in heap h other than
\* through its Parent: its dictionary, content streams and resources.
KidGraph(h, j) ==
    LET d == GetDict(h, traceObject(parser, h[kids[2]].el[j]))
    IN  {d[2]} \cup BelowPage(h, d[2])

\* The session was opened on a one-page source and its only call so far, a
\* MergePageWith(0, P), succeeded; the step is AddPages(P) with the same P.
MergeThenAdd ==
    /\ srcPageCount = 1 /\ nOps = 1
    /\ last.op = "MergePageWith" /\ last.err = "none" /\ last.pageNum = 0
    /\ Called("AddPages") /\ last'.pages = <<last.page>>

\* C26: on a one-page source, after MergePageWith(0, P) and AddPages(P) the
\* document has two pages, page 0's Contents holds the source page's content
\* streams and P's, and page 1 shares no object with page 0 (their Parent
\* apart); a commit after that changes none of it.
C26_MergeThenAddIndependent ==
    [][/\ MergeThenAdd =>
          /\ Len(KidsOf(heap')) = 2 /\ DOMAIN pagesDict' = {0, 1}
          /\ Len(ContentsOf(heap', newPagesDict'[0])) =
                 Len(StreamsOf(heap, KvGet(heap[pagesDict[0][2]].kv, "Contents")))
                 + Len(StreamsOf(heap, pageList[last.page].Contents))
          /\ KidsOf(heap')[1] = newPagesDict'[0]
          /\ KidGraph(heap', 1) \cap KidGraph(heap', 2) = {}
       /\ Called("WriteToFile") => heap' = heap /\ pagesDict' = pagesDict]_vars
\* The two-page document after the merge and the addition, committed.
C26_Witness ==
    /\ Committed /\ ~failed /\ nOps = 3 /\ srcPageCount = 1
    /\ Len(KidsOf(heap)) = 2
    /\ 0 \in DOMAIN newPagesDict /\ KidsOf(heap)[1] = newPagesDict[0]
    /\ Len(ContentsOf(heap, newPagesDict[0])) = 2
    /\ KidGraph(heap, 1) \cap KidGraph(heap, 2) = {}

\* The source is well formed and each of its pages has Contents and a
\* resource dictionary with Font, ExtGState and XObject dictionaries.
WellFormedSource ==
    \A i \in 0..(srcPageCount - 1) :
          \E w \in Worlds : w.rs = rs /\
              LET a == NewPdfAppender(w)
                  kv == a.heap[a.pagesDict[i][2]].kv
              IN  /\ KvGet(kv, "Contents") # Nil
                  /\ ~getPageResourcesByNameErr(a.heap, w.objs, kv)

\* C27: on a well-formed source whose pages have Contents and resource
\* dictionaries, as long as no earlier call returned an error, every AddPages
\* call, every MergePageWith call and every ReplacePage call on an index the
\* session holds a page for returns no error, and a WriteToFile call that
\* meets no input/output failure returns no error.
C27_SequencesSucceed ==
    [][(WellFormedSource /\ ~failed) =>
          /\ Called("AddPages") => last'.err = "none"
          /\ (/\ Called("MergePageWith") \/ Called("ReplacePage")
              /\ last'.pageNum \in DOMAIN pagesDict) => last'.err = "none"
          /\ (Called("WriteToFile") /\ last'.fail = "none") => last'.err = "none"]_vars

\* C28: after a successful MergePageWith, ReplacePage or AddPages call no
\* name of srcResources is left as a key of a Font, ExtGState or XObject
\* dictionary of the page the call renamed: the caller's page for
\* MergePageWith (each colliding name then stands in the rename map), the
\* copy put into Kids for ReplacePage and AddPages.  This is to hold whatever
\* subdictionaries the page has and whether its Contents is an array or a
\* single stream.
C28_EveryCollidingNameRenamed ==
    [][(PageOpCalled /\ last'.err = "none") =>
          /\ Called("MergePageWith") =>
                /\ IncomingNames(heap', pageList[last'.page]) \cap srcResources = {}
                /\ IncomingColliding \subseteq DOMAIN resourcesRenameMap'
          /\ Called("ReplacePage") =>
                KidResourceNames(heap', last'.pageNum + 1) \cap srcResources = {}
          /\ Called("AddPages") =>
                \A j \in (Len(KidsOf(heap)) + 1)..Len(KidsOf(heap')) :
                    KidResourceNames(heap', j) \cap srcResources = {}]_vars

\* The value the subdictionary sub of the caller's page holds under name n.
IncomingEntry(h, page, sub, n) ==
    KvGet(h[GetDict(h, KvGet(h[page.Resources[2]].kv, sub))[2]].kv, n)

\* C29: when a successful MergePageWith call renames the name n of the
\* incoming page to n', then in every one of the page's Font, ExtGState and
\* XObject dictionaries that held the key n the key n is gone and n' maps to
\* what n mapped to, also when two of these dictionaries held n; and every
\* content stream of the page names n' as often as it named n, and n no
\* longer.
C29_RenameConsistent ==
    [][MergedOk =>
        LET P == pageList[last'.page]
            sts == StreamsOf(heap, P.Contents)
        IN  \A n \in IncomingColliding :
              /\ \A sub \in MergedKinds :
                    n \in ResourceKeys(heap, P.Resources, sub) =>
                      /\ n \notin ResourceKeys(heap', P.Resources, sub)
                      /\ resourcesRenameMap'[n] \in ResourceKeys(heap', P.Resources, sub)
                      /\ IncomingEntry(heap', P, sub, resourcesRenameMap'[n])
                            = IncomingEntry(heap, P, sub, n)
              /\ \A e \in 1..Len(sts) :
                    /\ CountOcc(heap'[sts[e][2]].data, Tok(n)) = 0
                    /\ CountOcc(heap'[sts[e][2]].data, Tok(resourcesRenameMap'[n]))
                          >= CountOcc(heap[sts[e][2]].data, Tok(n))]_vars

\* The bytes of the content streams of the caller's page p after
\* renameResources has run on it as MergePageWith runs it, the re-keying
\* loop ranging in the order o2 and the stream loop in the order o3.
RewrittenStreams(p, o2, o3) ==
    LET P == pageList[p]
        sts == StreamsOf(heap, P.Contents)
        h == renameResources(Self, srcResources, TRUE,
                             ContentElements(heap, P.Contents),
                             << <<"Resources", P.Resources>> >>, o2, o3).S.heap
    IN  [e \in 1..Len(sts) |-> h[sts[e][2]].data]

\* C30: in every state of a session, and for every page of the caller, the
\* rewritten stream bytes are the same for every order in which the entries
\* of the stream rename map are applied: no entry rewrites what another entry
\* wrote.
C30_RewriteOrderIndependent ==
    \A p \in 1..Len(pageList) :
        \A o2 \in Orders(<<p>>), o3 \in Orders(<<p>>), o3b \in Orders(<<p>>) :
            RewrittenStreams(p, o2, o3) = RewrittenStreams(p, o2, o3b)

\* C31: a successful MergePageWith call that renames names of the incoming
\* page leaves each of the page's Font, ExtGState and XObject dictionaries
\* with as many entries as it had, and every entry whose name was not renamed
\* is still there with the value it had: a replacement name never takes the
\* place of an entry of the page.
C31_RenameKeepsEntries ==
    [][MergedOk =>
        LET P == pageList[last'.page]
        IN  \A sub \in MergedKinds :
              /\ Cardinality(ResourceKeys(heap', P.Resources, sub))
                    = Cardinality(ResourceKeys(heap, P.Resources, sub))
              /\ \A k \in ResourceKeys(heap, P.Resources, sub) \ IncomingColliding :
                    /\ k \in ResourceKeys(heap', P.Resources, sub)
                    /\ IncomingEntry(heap', P, sub, k) = IncomingEntry(heap, P, sub, k)]_vars

\* The cells that make up the value of the indirect object or stream at the
\* addresses in stack: the object and every array and dictionary it holds
\* directly, not the other indirect objects and streams it refers to.
RECURSIVE OwnCells(_, _, _)
OwnCells(h, stack, seen) ==
    IF stack = <<>> THEN seen
    ELSE LET c == Head(stack)
             direct == SelectSeq(CellChildren(h[c]),
                                 LAMBDA v : IsPtr(v) /\ h[v[2]].kind \in {"dict", "array"}
                                            /\ v[2] \notin seen)
         IN  OwnCells(h, [i \in 1..Len(direct) |-> direct[i][2]] \o Tail(stack),
                      seen \cup {c})

\* The value of the object at address c in heap h.
ObjectValue(h, c) == {<<i, h[i]>> : i \in OwnCells(h, <<c>>, {})}

\* The objects a commit hands to the writer: the root, the page-tree node
\* and the pending delta.
Emitted(nobjs) == {root[2], ppages[2]} \cup {nobjs[i] : i \in 1..Len(nobjs)}

\* C32: a MergePageWith, ReplacePage or AddPages call changes the value of an
\* object of the source object set only if the commit writes that object
\* again: the object is the root, the page-tree node or in the pending delta
\* after the call.
C32_SourceGraphReadOnly ==
    [][PageOpCalled =>
        \A c \in srcIndirectObjects :
            ObjectValue(heap', c) # ObjectValue(heap, c) => c \in Emitted(newObjects')]_vars

\* The addresses reached in heap h from the values in stack, references
\* being looked up in the parser's table.
RECURSIVE ReachResolved(_, _, _)
ReachResolved(h, stack, seen) ==
    IF stack = <<>> THEN seen
    ELSE LET v == traceObject(parser, Head(stack))
         IN  IF ~IsPtr(v) \/ v[2] \in seen THEN ReachResolved(h, Tail(stack), seen)
             ELSE ReachResolved(h, CellChildren(h[v[2]]) \o Tail(stack),
                                seen \cup {v[2]})

\* The indirect objects and streams the document's root reaches that are not
\* objects of the source.
NewFromRoot ==
    {c \in ReachResolved(heap, <<root>>, {}) :
        heap[c].kind \in {"ind", "stream"} /\ c \notin srcIndirectObjects}

\* C33: at a commit that follows MergePageWith, ReplacePage or AddPages calls
\* which all returned no error, the objects handed to the writer hold no
\* object twice, hold the page-tree node and every new page of Kids, and hold
\* every new indirect object and stream the root reaches.
C33_RevisionComplete ==
    (Committed /\ ~failed /\ Len(newObjects) > 0) =>
        LET W == WriterObjects(newObjects)
        IN  /\ \A i, j \in 1..Len(W) : W[i] = W[j] => i = j
            /\ \E i \in 1..Len(W) : W[i] = ppages[2]
            /\ \A k \in 1..Len(KidsOf(heap)) :
                  LET kid == KidsOf(heap)[k]
                  IN  (IsPtr(kid) /\ kid[2] \notin srcIndirectObjects) =>
                          \E i \in 1..Len(W) : W[i] = kid[2]
            /\ \A c \in NewFromRoot : \E i \in 1..Len(W) : W[i] = c

\* A ReplacePage call has put a page in the place of source page i: the
\* dictionary pagesDict holds for i is no longer the one NewPdfAppender read.
Replaced(i) ==
    /\ i \in 0..(srcPageCount - 1)
    /\ \E w \in Worlds : w.rs = rs /\ pagesDict[i] # NewPdfAppender(w).pagesDict[i]

\* C34: a successful MergePageWith(i, Q) on an index whose page a ReplacePage
\* replaced earlier leaves at position i of Kids a page whose Contents begins
\* with the content of the replacement and ends with the content of Q,
\* whatever was done on i before the ReplacePage.
C34_ReplacementKept ==
    [][(MergedOk /\ Replaced(last'.pageNum)) =>
        LET i == last'.pageNum
            c == ContentsOf(heap', newPagesDict'[i])
            p == ContentElements(heap, KvGet(heap[pagesDict[i][2]].kv, "Contents"))
        IN  /\ KidsOf(heap')[i + 1] = newPagesDict'[i]
            /\ Len(c) >= Len(p) + Len(IncomingElements)
            /\ SubSeq(c, 1, Len(p)) = p
            /\ SubSeq(c, Len(c) - Len(IncomingElements) + 1, Len(c)) = IncomingElements]_vars

\* The indirect objects of the pending delta that hold a page dictionary: a
\* dictionary with a Parent entry.
PendingPages ==
    {newObjects[n] : n \in {m \in 1..Len(newObjects) :
        LET d == GetDict(heap, Ptr(newObjects[m]))
        IN  /\ heap[newObjects[m]].kind = "ind" /\ d # Nil
            /\ KvGet(heap[d[2]].kv, "Parent") # Nil}}

\* C35: as long as every call returned no error, every page object of the
\* pending delta is an element of Kids, so that no index has two page objects
\* in the pending delta.
C35_NoOrphanPage ==
    ~failed => \A c \in PendingPages :
                  \E k \in 1..Len(KidsOf(heap)) : KidsOf(heap)[k] = Ptr(c)

\* C36: a successful MergePageWith(i, P) leaves every object of the caller's
\* page P as it was: the resource dictionaries keep their keys and the
\* content streams their bytes.
C36_MergeLeavesCallerPage ==
    [][MergedOk =>
        \A a \in PageGraph(heap, pageList[last'.page]) : heap'[a] = heap[a]]_vars

\* The number of calls a walk over heap h is given to end.
WalkLimit(h) == Len(h) * Len(h)

\* The calls lookupIndirectObjects makes from the values in stack until
\* nothing is left to visit; more than WalkLimit(h) when it has not ended by
\* then.
RECURSIVE lookupCalls(_, _, _, _)
lookupCalls(h, stack, src, n) ==
    IF stack = <<>> \/ n > WalkLimit(h) THEN n
    ELSE With(lookupIndirectObjectsStep(h, stack, src), LAMBDA s :
             lookupCalls(h, s.stack, s.src, n + 1))

\* The same for addNewObjects, with the queue it has built.
RECURSIVE trackerCalls(_, _, _, _, _)
trackerCalls(h, stack, src, nw, n) ==
    IF stack = <<>> \/ n > WalkLimit(h) THEN [n |-> n, queue |-> nw[1]]
    ELSE With(addNewObjectsStep(h, stack, src, nw), LAMBDA s :
             trackerCalls(h, s.stack, src, s.nw, n + 1))

\* A page of Kids that no source page is and whose Parent is the page-tree
\* node itself: the object graph has a cycle through Kids and Parent.
ParentCycle ==
    \E k \in 1..Len(KidsOf(heap)) :
        LET kid == KidsOf(heap)[k]
        IN  /\ IsPtr(kid) /\ kid[2] \notin srcIndirectObjects
            /\ GetDict(heap, kid) # Nil
            /\ KvGet(heap[GetDict(heap, kid)[2]].kv, "Parent") = ppages

\* C37: on the object graph of every reachable state, cycles through Parent
\* and Kids included, lookupIndirectObjects started at the root and the
\* page-tree node ends, and so does addNewObjects started there with nothing
\* marked, and the queue it builds holds no object twice.
C37_WalksTerminate ==
    [](/\ lookupCalls(heap, <<root, ppages>>, {}, 0) <= WalkLimit(heap)
       /\ \E t \in {trackerCalls(heap, <<root, ppages>>, {}, <<<<>>, {}>>, 0)} :
             /\ t.n <= WalkLimit(heap)
             /\ \A i, j \in 1..Len(t.queue) : t.queue[i] = t.queue[j] => i = j)
C37_Witness ==
    /\ ParentCycle /\ nOps > 0
    /\ lookupCalls(heap, <<root, ppages>>, {}, 0) <= WalkLimit(heap)
    /\ \E t \in {trackerCalls(heap, <<root, ppages>>, {}, <<<<>>, {}>>, 0)} :
          /\ t.n <= WalkLimit(heap)
          /\ \E i \in 1..Len(t.queue) : t.queue[i] = ppages[2]
          /\ \E i \in 1..Len(t.queue) : t.queue[i] \notin srcIndirectObjects

\* The indirect objects and streams of the source document the session was
\* opened on: those the parser's graph held before any call.
SourceObjects ==
    UNION {{c \in 1..w.nsrc : w.heap[c].kind \in {"ind", "stream"}} :
           w \in {v \in Worlds : v.rs = rs}}

\* C38: the source object set holds every indirect object and stream of the
\* source document, and no object of the source document is in the pending
\* delta.
C38_SourceSetComplete ==
    /\ SourceObjects \subseteq srcIndirectObjects
    /\ \A i \in 1..Len(newObjects) : newObjects[i] \notin SourceObjects

\* C39: greatestObjNum is the greatest object number of the source; and at a
\* commit that writes objects, every object written gets a number greater
\* than every object number of the source, no two get the same, and the
\* position recorded for it is where it stands in the destination, counted
\* from the start of the file.
C39_NumbersAndOffsets ==
    /\ HasSession =>
          /\ \A n \in DOMAIN parser : n <= greatestObjNum
          /\ greatestObjNum \in DOMAIN parser
    /\ (Committed /\ Len(newObjects) > 0) =>
          LET W == WriterObjects(newObjects)
              x == XrefEntries(WriterSetup(rs), W)
          IN  \A k \in 1..Len(W) :
                /\ \A n \in DOMAIN parser : x[k].num > n
                /\ \A j \in 1..Len(W) : x[j].num = x[k].num => j = k
                /\ x[k].offset >= Len(rs)
                /\ x[k].offset < Len(dest.bytes)
                /\ dest.bytes[x[k].offset + 1] = ObjByte(W[k])
C39_Witness ==
    /\ Committed /\ ~failed /\ Len(newObjects) > 1
    /\ greatestObjNum = 6
    /\ LET W == WriterObjects(newObjects)
           x == XrefEntries(WriterSetup(rs), W)
       IN  /\ x[Len(W)].num = greatestObjNum + Len(W)
           /\ dest.bytes[x[Len(W)].offset + 1] = ObjByte(W[Len(W)])

\* C40: for a font of each composite type, right after SetEncoder(e) the
\* font's Encoder() is e.
C40_EncoderRoundTrip ==
    [][last'.op = "SetEncoder" =>
          Encoder(fonts'[last'.font]) = last'.encoder]_vars

====
